---- MODULE Spec2Model ----
(***************************************************************************)
(* Verification model of dwarven-realm: the server's in-memory store and   *)
(* its world grid (server/storage.ts), the A* path finder, and the client  *)
(* side worker stores, movement loop and AI controllers.                   *)
(***************************************************************************)
EXTENDS Integers, Sequences, FiniteSets, TLC

\* ------------------------------------------------------------------ bounds

\* Width and height of the modelled world grid.
GridW == 3
GridH == 2
\* Largest number of wall cells drawn for a path-finding grid.
MaxWalls == 2

\* Width and height of the world generated in the store model.
StoreW == 2
StoreH == 2
\* Largest number of buildings and of resources created in the store model.
MaxBuildings == 1
MaxResources == 1

\* Number of workers in the client model; their ids are 1 .. NumDwarves.
NumDwarves == 2
\* Quantity of the stone resource a worker is sent to mine.
StoneQuantity == 2
\* Largest number of oracle requests in flight for one worker.
MaxInFlight == 2
\* Largest world seed drawn; the seeds are 0 .. MaxSeed.
MaxSeed == 1
\* Largest number of need updates the frame loop makes.
MaxNeedUpdates == 1
\* Largest number of tasks created in the server's task store.
MaxTasks == 2

VARIABLES
    worldGrid,       \* MemStorage.worldGrid: the server's GameWorld, or NoGrid (null)
    pathReq,         \* the findPath call made: [start, end], or NoReq before the call
    pathRes,         \* what that call returned
    buildingStore,   \* MemStorage.buildingStore: id -> Building
    buildingCounter, \* MemStorage.buildingCounter
    resourceStore,   \* MemStorage.resourceStore: id -> Resource
    resourceCounter, \* MemStorage.resourceCounter
    dwarfStore,      \* MemStorage.dwarfStore: id -> Dwarf
    taskStore,       \* MemStorage.taskStore: id -> Task
    taskCounter,     \* MemStorage.taskCounter
    worldSeed,       \* MemStorage.gameStateData.worldSeed
    response,        \* the answer of the last route handler that ran
    game,            \* useGame: phase, settings.gamePaused, day, time, weather, speed
    dwarves,         \* useDwarves.dwarves: the client's workers, indexed by id
    resources,       \* useBuilding.resources: the client's resources, indexed by id
    buildings,       \* useBuilding.buildings: the client's buildings, indexed by id
    world,           \* useBuilding.world: the client's GameWorld, or NoGrid (null)
    moveTick,        \* the movement callback suspended in `await findPath`
    needCheck,       \* per worker: the frame-loop checkCriticalNeeds run and its await
    decisions,       \* per worker: the getAIDecision calls waiting for the oracle
    lastUpdateTime,  \* per worker: whether its last decision is younger than the interval
    lastNeedUpdateTime \* frame loop: the need updates made so far (lastNeedUpdateTime.current
                     \* in units of NEED_UPDATE_INTERVAL)

pathVars == <<pathReq, pathRes>>
taskVars == <<dwarfStore, taskStore, taskCounter>>
storeVars ==
    <<buildingStore, buildingCounter, resourceStore, resourceCounter, taskVars, worldSeed,
      response>>
clientVars ==
    <<dwarves, resources, buildings, world, moveTick, needCheck, decisions, lastUpdateTime,
      lastNeedUpdateTime, game>>

vars == <<worldGrid, pathVars, storeVars, clientVars>>

\* ------------------------------------------------------------- grid values

NoPoint == <<>>

Cells(w, h) == (0 .. w - 1) \X (0 .. h - 1)

\* A GridCell as generateWorld creates it: walkable terrain, no occupant ids.
TerrainCell == [type |-> "terrain", walkable |-> TRUE, buildingId |-> 0, resourceId |-> 0]

\* The value of MemStorage.worldGrid after the constructor: null.
NoGrid == [exists |-> FALSE, width |-> 0, height |-> 0, grid |-> <<>>]

\* The grid generateWorld builds before terrain and occupants are applied.
EmptyGrid(w, h) ==
    [exists |-> TRUE, width |-> w, height |-> h, grid |-> [c \in Cells(w, h) |-> TerrainCell]]

InBounds(g, p) == p[1] >= 0 /\ p[1] < g.width /\ p[2] >= 0 /\ p[2] < g.height

Abs(n) == IF n < 0 THEN -n ELSE n

getManhattanDistance(p1, p2) == Abs(p1[1] - p2[1]) + Abs(p1[2] - p2[2])

\* --------------------------------------------------------------- findPath

\* The neighbour order of the A* expansion loop.
directions == << <<1, 0>>, <<-1, 0>>, <<0, 1>>, <<0, -1>> >>

\* The walkability test of the expansion loop: `!cell.walkable` skips the cell.
CellWalkableMut(g, p) == TRUE
CellWalkable(g, p) == g.grid[p].walkable

\* openSet.sort((a, b) => a.f - b.f): a stable sort by ascending f.
RECURSIVE InsertByF(_, _)
InsertByF(sorted, item) ==
    IF sorted = <<>> THEN <<item>>
    ELSE IF Head(sorted).f <= item.f
         THEN <<Head(sorted)>> \o InsertByF(Tail(sorted), item)
         ELSE <<item>> \o sorted

RECURSIVE SortByF(_)
SortByF(s) ==
    IF s = <<>> THEN <<>>
    ELSE InsertByF(SortByF(SubSeq(s, 1, Len(s) - 1)), s[Len(s)])

InOpenSet(openSet, p) == \E i \in 1 .. Len(openSet) : openSet[i].pos = p

\* The body of `for (const dir of directions)` from direction i on; the loop
\* state is the open list and the gScore map.  fScore is written by the code
\* and never read after initialisation, so it is not carried.
RECURSIVE ExpandNeighbors(_, _, _, _, _, _, _)
ExpandNeighbors(g, end, current, openSet, closedSet, gScore, i) ==
    IF i > Len(directions) THEN [open |-> openSet, gs |-> gScore]
    ELSE
      LET neighbor == <<current.pos[1] + directions[i][1], current.pos[2] + directions[i][2]>>
          tentativeG == current.g + 1
          skip == \/ ~InBounds(g, neighbor)
                  \/ neighbor \in closedSet
                  \/ ~CellWalkable(g, neighbor)
                  \/ (neighbor \in DOMAIN gScore /\ tentativeG >= gScore[neighbor])
      IN IF skip
         THEN ExpandNeighbors(g, end, current, openSet, closedSet, gScore, i + 1)
         ELSE
           LET gs2 == (neighbor :> tentativeG) @@ gScore
               open2 == IF InOpenSet(openSet, neighbor) THEN openSet
                        ELSE Append(openSet,
                               [pos |-> neighbor,
                                f |-> tentativeG + getManhattanDistance(neighbor, end),
                                g |-> tentativeG,
                                parent |-> current.pos])
           IN ExpandNeighbors(g, end, current, open2, closedSet, gs2, i + 1)

\* The `while (curr.parent)` loop: the parent entry is looked up in what is
\* left of the open list; when it is not there a parentless stand-in is used.
RECURSIVE ReconstructPath(_, _, _, _)
ReconstructPath(curr, openSet, gScore, path) ==
    IF curr.parent = NoPoint THEN path
    ELSE
      LET found == {i \in 1 .. Len(openSet) : openSet[i].pos = curr.parent}
          first == CHOOSE i \in found : \A j \in found : i <= j
          parentEntry ==
              IF found # {} THEN openSet[first]
              ELSE [pos |-> curr.parent, f |-> 0,
                    g |-> IF curr.parent \in DOMAIN gScore THEN gScore[curr.parent] ELSE 0,
                    parent |-> NoPoint]
      IN ReconstructPath(parentEntry, openSet, gScore, <<curr.pos>> \o path)

\* The `while (openSet.length > 0)` loop.
RECURSIVE AStarLoop(_, _, _, _, _)
AStarLoop(g, end, openSet, closedSet, gScore) ==
    IF openSet = <<>> THEN <<>>
    ELSE
      LET sorted == SortByF(openSet)
          current == Head(sorted)
          rest == Tail(sorted)
      IN IF current.pos = end
         THEN ReconstructPath(current, rest, gScore, <<>>)
         ELSE
           LET closed2 == closedSet \cup {current.pos}
               r == ExpandNeighbors(g, end, current, rest, closed2, gScore, 1)
           IN AStarLoop(g, end, r.open, closed2, r.gs)

\* MemStorage.findPath(start, end).
findPath(g, start, end) ==
    IF ~g.exists THEN <<start, end>>
    ELSE IF ~InBounds(g, start) \/ ~InBounds(g, end) THEN <<>>
    ELSE IF start = end THEN <<>>
    ELSE AStarLoop(g, end,
                   << [pos |-> start, f |-> getManhattanDistance(start, end), g |-> 0,
                       parent |-> NoPoint] >>,
                   {}, (start :> 0))

\* ------------------------------------------- specification: path finding

NoReq == [start |-> NoPoint, end |-> NoPoint, called |-> FALSE]

\* A wall as updateWorldGridForBuilding stamps it on a cell.
WallCell(id) == [type |-> "building", walkable |-> FALSE, buildingId |-> id, resourceId |-> 0]

\* The grid after generateWorld(GridW, GridH) and one 1x1 Wall created on
\* each cell of `walls`.
GridWithWalls(walls) ==
    [exists |-> TRUE, width |-> GridW, height |-> GridH,
     grid |-> [c \in Cells(GridW, GridH) |-> IF c \in walls THEN WallCell(1) ELSE TerrainCell]]

WallLayouts == {ws \in SUBSET Cells(GridW, GridH) : Cardinality(ws) <= MaxWalls}

\* Request points: every cell of the grid and one point beyond each edge.
PathPoints == Cells(GridW, GridH) \cup {<<-1, 0>>, <<GridW, 0>>, <<0, -1>>, <<0, GridH>>}

\* The first minute of a game: 6:00 AM (useGame's `time: 360`).
StartTime == 360

\* The useGame store as create() leaves it: loading, not paused, day 1 at
\* 6:00 AM, clear weather, normal speed.
GameCreated ==
    [phase |-> "loading", gamePaused |-> FALSE, day |-> 1, time |-> StartTime,
     weather |-> "clear", speed |-> 1]

\* The store once App has called start(): the frame loops and the interval
\* callbacks of the client do their work in this phase only.
GamePlaying == [GameCreated EXCEPT !.phase = "playing"]

\* The client stores as they are created: no worker, no resource, no
\* building, no world, and no callback waiting.
ClientIdle ==
    /\ dwarves = <<>>
    /\ resources = <<>>
    /\ buildings = <<>>
    /\ world = NoGrid
    /\ moveTick = <<>>
    /\ needCheck = <<>>
    /\ decisions = <<>>
    /\ lastUpdateTime = <<>>
    /\ lastNeedUpdateTime = 0
    /\ game = GameCreated

\* A Dwarf of the server store as createDwarf makes it: idle, no task.  Of its
\* fields the id, the state and the current task are carried; currentTask
\* "none" is null.
ServerDwarf(id) == [id |-> id, state |-> "idle", currentTask |-> "none"]

\* The dwarfStore after the constructor's initializeStarterData: the starter
\* workers, with the ids 1, 2, ... that dwarfCounter hands out.
StarterDwarves == [id \in 1 .. NumDwarves |-> ServerDwarf(id)]

\* No route handler has answered yet.
NoResponse == [route |-> "none", a |-> 0, b |-> 0, status |-> 0]

\* The store's records play no part in a findPath call.  The world seed is the
\* number the constructor drew; it matters to world generation only.
StoreIdle ==
    /\ buildingStore = <<>>
    /\ buildingCounter = 1
    /\ resourceStore = <<>>
    /\ resourceCounter = 1
    /\ dwarfStore = StarterDwarves
    /\ taskStore = <<>>
    /\ taskCounter = 1
    /\ worldSeed = 0
    /\ response = NoResponse

InitPath ==
    /\ worldGrid \in {NoGrid} \cup {GridWithWalls(ws) : ws \in WallLayouts}
    /\ pathReq = NoReq
    /\ pathRes = <<>>
    /\ StoreIdle
    /\ ClientIdle

FindPathCall ==
    /\ ~pathReq.called
    /\ \E s \in PathPoints, e \in PathPoints :
         /\ pathReq' = [start |-> s, end |-> e, called |-> TRUE]
         /\ pathRes' = findPath(worldGrid, s, e)
    /\ UNCHANGED <<worldGrid, storeVars, clientVars>>

NextPath == FindPathCall

SpecPath == InitPath /\ [][NextPath]_vars

\* --------------------------------------------- the server's entity store

\* The cells a building covers: x .. x+width-1 by y .. y+height-1.
Footprint(b) == (b.x .. b.x + b.width - 1) \X (b.y .. b.y + b.height - 1)

\* updateWorldGridForBuilding: stamps every in-bounds cell of the footprint.
updateWorldGridForBuilding(g, b) ==
    IF ~g.exists THEN g
    ELSE [g EXCEPT !.grid =
            [c \in DOMAIN g.grid |->
                IF c \in Footprint(b)
                THEN [g.grid[c] EXCEPT !.type = "building", !.buildingId = b.id,
                                       !.walkable = (b.type # "wall")]
                ELSE g.grid[c]]]

\* updateWorldGridForResource: marks the resource's cell when it has quantity.
updateWorldGridForResource(g, r) ==
    IF ~g.exists THEN g
    ELSE IF r.quantity <= 0 THEN g
    ELSE IF InBounds(g, <<r.x, r.y>>)
         THEN [g EXCEPT !.grid[<<r.x, r.y>>] =
                 [@ EXCEPT !.type = "resource", !.resourceId = r.id, !.walkable = TRUE]]
         ELSE g

\* { ...record, ...updates }: the fields of `updates` replace the record's.
Merge(record, updates) == updates @@ record

\* The entities whose footprint another entity's new footprint must avoid:
\* footprints never overlap, which the store leaves to its callers.
OccupiedBut(bid, rid) ==
    (UNION {Footprint(buildingStore[i]) : i \in DOMAIN buildingStore \ {bid}})
    \cup {<<resourceStore[i].x, resourceStore[i].y>> : i \in DOMAIN resourceStore \ {rid}}

BuildingTypes == {"wall", "floor"}

\* MemStorage.createBuilding: `x || 0`, `width || 1`, ... fill the defaults.
CreateBuilding ==
    /\ buildingCounter <= MaxBuildings
    /\ \E t \in BuildingTypes, p \in Cells(StoreW, StoreH), w \in 0 .. 2 :
         LET id == buildingCounter
             newBuilding == [id |-> id, type |-> t, x |-> p[1], y |-> p[2],
                             width |-> IF w = 0 THEN 1 ELSE w, height |-> 1,
                             complete |-> FALSE, progress |-> 0]
         IN /\ Footprint(newBuilding) \cap OccupiedBut(0, 0) = {}
            /\ buildingStore' = (id :> newBuilding) @@ buildingStore
            /\ buildingCounter' = id + 1
            /\ worldGrid' = updateWorldGridForBuilding(worldGrid, newBuilding)
    /\ UNCHANGED <<resourceStore, resourceCounter, taskVars, worldSeed, response, pathVars,
                   clientVars>>

\* The partial updates sent to updateBuilding: a move or a change of width.
BuildingUpdates ==
    {[x |-> p[1], y |-> p[2]] : p \in Cells(StoreW, StoreH)} \cup {[width |-> w] : w \in 1 .. 2}

\* MemStorage.updateBuilding.
UpdateBuilding ==
    \E id \in DOMAIN buildingStore, updates \in BuildingUpdates :
        LET updatedBuilding == Merge(buildingStore[id], updates)
        IN /\ Footprint(updatedBuilding) \cap OccupiedBut(id, 0) = {}
           /\ buildingStore' = [buildingStore EXCEPT ![id] = updatedBuilding]
           /\ worldGrid' = updateWorldGridForBuilding(worldGrid, updatedBuilding)
           /\ UNCHANGED <<buildingCounter, resourceStore, resourceCounter, taskVars, worldSeed,
                          response, pathVars, clientVars>>

\* MemStorage.createResource: `quantity || 10` turns a missing or zero
\* quantity into 10.
CreateResource ==
    /\ resourceCounter <= MaxResources
    /\ \E p \in Cells(StoreW, StoreH), q \in 0 .. 1, regen \in BOOLEAN :
         LET id == resourceCounter
             newResource == [id |-> id, type |-> IF regen THEN "wood" ELSE "stone",
                             x |-> p[1], y |-> p[2],
                             quantity |-> IF q = 0 THEN 10 ELSE q, regenerate |-> regen]
         IN /\ p \notin OccupiedBut(0, 0)
            /\ resourceStore' = (id :> newResource) @@ resourceStore
            /\ resourceCounter' = id + 1
            /\ worldGrid' = updateWorldGridForResource(worldGrid, newResource)
    /\ UNCHANGED <<buildingStore, buildingCounter, taskVars, worldSeed, response, pathVars,
                   clientVars>>

\* The partial updates sent to updateResource: a move or a new quantity.
ResourceUpdates ==
    {[x |-> p[1], y |-> p[2]] : p \in Cells(StoreW, StoreH)} \cup {[quantity |-> 0]}

\* MemStorage.updateResource: the grid is touched only on depletion, and then
\* the cell is cleared whatever the resource's regenerate flag.
UpdateResource ==
    \E id \in DOMAIN resourceStore, updates \in ResourceUpdates :
        LET updatedResource == Merge(resourceStore[id], updates)
            c == <<updatedResource.x, updatedResource.y>>
        IN /\ c \notin OccupiedBut(0, id)
           /\ resourceStore' = [resourceStore EXCEPT ![id] = updatedResource]
           /\ worldGrid' =
                IF updatedResource.quantity <= 0 /\ worldGrid.exists /\ InBounds(worldGrid, c)
                THEN [worldGrid EXCEPT !.grid[c] =
                        [@ EXCEPT !.type = "terrain", !.resourceId = 0, !.walkable = TRUE]]
                ELSE worldGrid
           /\ UNCHANGED <<buildingStore, buildingCounter, resourceCounter, taskVars, worldSeed,
                          response, pathVars, clientVars>>

\* The world seeds: what Math.floor(Math.random() * 1000000) and a request draw.
Seeds == 0 .. MaxSeed

\* MemStorage.generateWorld(StoreW, StoreH, seed).  With fewer than 100 cells
\* generateTerrain places floor(w*h/100) = 0 hills, every elevation is 0 and
\* no water is created.  The loops over the stored buildings and resources
\* call updateWorldGridFor... which write this.worldGrid, the previous world
\* (or return at once when it is null); the store then replaces this.worldGrid
\* by the fresh grid, which therefore carries no occupant.
GenerateWorld ==
    /\ worldGrid' = EmptyGrid(StoreW, StoreH)
    /\ \E seed \in Seeds : worldSeed' = seed
    /\ UNCHANGED <<buildingStore, buildingCounter, resourceStore, resourceCounter, taskVars,
                   response, pathVars, clientVars>>

InitStore ==
    /\ worldGrid = NoGrid
    /\ StoreIdle
    /\ pathReq = NoReq
    /\ pathRes = <<>>
    /\ ClientIdle

NextStore ==
    \/ GenerateWorld
    \/ CreateBuilding
    \/ UpdateBuilding
    \/ CreateResource
    \/ UpdateResource

SpecStore == InitStore /\ [][NextStore]_vars

\* The store once its world has been generated, under creations and updates
\* only.
InitGridOps ==
    /\ worldGrid = EmptyGrid(StoreW, StoreH)
    /\ StoreIdle
    /\ pathReq = NoReq
    /\ pathRes = <<>>
    /\ ClientIdle

NextGridOps ==
    \/ CreateBuilding
    \/ UpdateBuilding
    \/ CreateResource
    \/ UpdateResource

SpecGridOps == InitGridOps /\ [][NextGridOps]_vars

\* ------------------------------------------------- claims on path finding

PathNeighbors(g, p) ==
    {n \in {<<p[1] + 1, p[2]>>, <<p[1] - 1, p[2]>>, <<p[1], p[2] + 1>>, <<p[1], p[2] - 1>>} :
        InBounds(g, n) /\ g.grid[n].walkable}

\* Breadth-first search: the number of orthogonal steps of a shortest route
\* from start to goal that enters only walkable cells, or -1 when there is none.
RECURSIVE BfsLevels(_, _, _, _, _)
BfsLevels(g, frontier, visited, goal, depth) ==
    IF goal \in frontier THEN depth
    ELSE IF frontier = {} THEN -1
    ELSE LET next == (UNION {PathNeighbors(g, p) : p \in frontier}) \ visited
         IN BfsLevels(g, next, visited \cup next, goal, depth + 1)

ShortestLength(g, start, goal) == BfsLevels(g, {start}, {start}, goal, 0)

PathCallOnGrid ==
    /\ pathReq.called
    /\ worldGrid.exists
    /\ InBounds(worldGrid, pathReq.start)
    /\ InBounds(worldGrid, pathReq.end)

\* C1: the length of the path findPath returns equals the breadth-first
\* shortest-path length from start to goal.
C1_PathOptimal ==
    (PathCallOnGrid /\ ShortestLength(worldGrid, pathReq.start, pathReq.end) >= 0)
        => Len(pathRes) = ShortestLength(worldGrid, pathReq.start, pathReq.end)

WalkableInGrid(p) ==
    worldGrid.exists /\ InBounds(worldGrid, p) /\ worldGrid.grid[p].walkable

\* C2: every non-empty result of findPath has each consecutive pair of cells
\* orthogonally adjacent, every cell walkable, and its last cell equal to goal.
C2_PathValid ==
    (pathReq.called /\ pathRes # <<>>)
        => /\ \A i \in 1 .. Len(pathRes) - 1 :
                getManhattanDistance(pathRes[i], pathRes[i + 1]) = 1
           /\ \A i \in 1 .. Len(pathRes) : WalkableInGrid(pathRes[i])
           /\ pathRes[Len(pathRes)] = pathReq.end

\* C10: on a generated grid, findPath returns the empty path when no route of
\* walkable cells leads from start to goal, and when start or goal lies
\* outside the grid bounds.
C10_UnreachableEmpty ==
    (/\ pathReq.called
     /\ worldGrid.exists
     /\ \/ ~InBounds(worldGrid, pathReq.start)
        \/ ~InBounds(worldGrid, pathReq.end)
        \/ ShortestLength(worldGrid, pathReq.start, pathReq.end) = -1)
        => pathRes = <<>>

\* A call whose goal is a walkable cell walled off from a walkable start.
C10_Witness ==
    /\ PathCallOnGrid
    /\ pathReq.start # pathReq.end
    /\ worldGrid.grid[pathReq.start].walkable
    /\ worldGrid.grid[pathReq.end].walkable
    /\ ShortestLength(worldGrid, pathReq.start, pathReq.end) = -1
    /\ pathRes = <<>>

\* ------------------------------------------------ claims on the store grid

GridCells == DOMAIN worldGrid.grid

\* C7: after updateBuilding or updateResource changes an entity's position or
\* footprint, the cells of the old footprint that are no longer covered
\* reference the entity no more and are terrain again, and exactly the cells
\* of the new footprint are marked as occupied by it.
C7_UpdateResyncsGrid ==
    [][(worldGrid.exists /\ worldGrid'.exists) =>
        /\ \A id \in DOMAIN buildingStore :
             (id \in DOMAIN buildingStore'
              /\ Footprint(buildingStore'[id]) # Footprint(buildingStore[id]))
             => /\ \A c \in (Footprint(buildingStore[id]) \ Footprint(buildingStore'[id]))
                              \cap GridCells :
                      worldGrid'.grid[c].buildingId # id /\ worldGrid'.grid[c].type = "terrain"
                /\ \A c \in GridCells :
                      (worldGrid'.grid[c].type = "building" /\ worldGrid'.grid[c].buildingId = id)
                        <=> c \in Footprint(buildingStore'[id])
        /\ \A id \in DOMAIN resourceStore :
             (id \in DOMAIN resourceStore'
              /\ <<resourceStore'[id].x, resourceStore'[id].y>>
                   # <<resourceStore[id].x, resourceStore[id].y>>
              /\ resourceStore'[id].quantity > 0)
             => \A c \in GridCells :
                   (worldGrid'.grid[c].type = "resource" /\ worldGrid'.grid[c].resourceId = id)
                     <=> c = <<resourceStore'[id].x, resourceStore'[id].y>>
      ]_vars

\* The buildings covering a cell, and the resources standing on it that the
\* grid is to show (not depleted, or regenerating).
BuildingsOn(c) == {i \in DOMAIN buildingStore : c \in Footprint(buildingStore[i])}
ResourcesOn(c) ==
    {i \in DOMAIN resourceStore :
        /\ c = <<resourceStore[i].x, resourceStore[i].y>>
        /\ (resourceStore[i].quantity > 0 \/ resourceStore[i].regenerate)}

\* C8: every cell of the world grid has exactly one occupant kind, the kind
\* of what covers it, and is non-walkable iff a movement-blocking occupant
\* (a wall) covers it.
C8_GridInvariant ==
    worldGrid.exists =>
        \A c \in GridCells :
            LET cell == worldGrid.grid[c]
            IN /\ cell.type = "building" <=> (BuildingsOn(c) # {} /\ cell.buildingId \in BuildingsOn(c))
               /\ cell.type = "resource" <=> (ResourcesOn(c) # {} /\ cell.resourceId \in ResourcesOn(c))
               /\ cell.type = "terrain" <=> (BuildingsOn(c) = {} /\ ResourcesOn(c) = {})
               /\ ~cell.walkable <=> \E i \in BuildingsOn(c) : buildingStore[i].type = "wall"

\* C9: when a resource's quantity reaches 0, its cell becomes terrain if it
\* does not regenerate, and stays a resource cell referencing it if it does.
C9_DepletionByKind ==
    [][\A id \in DOMAIN resourceStore :
          LET c == <<resourceStore[id].x, resourceStore[id].y>>
          IN (/\ id \in DOMAIN resourceStore'
              /\ resourceStore[id].quantity > 0
              /\ resourceStore'[id].quantity = 0
              /\ worldGrid.exists
              /\ InBounds(worldGrid, c)
              /\ worldGrid.grid[c].type = "resource"
              /\ worldGrid.grid[c].resourceId = id)
             => IF resourceStore[id].regenerate
                THEN worldGrid'.grid[c].type = "resource" /\ worldGrid'.grid[c].resourceId = id
                ELSE worldGrid'.grid[c].type = "terrain"
      ]_vars

\* ------------------------------------------------------ the client stores

DwarfIds == 1 .. NumDwarves

Max(a, b) == IF a > b THEN a ELSE b

Min(a, b) == IF a < b THEN a ELSE b

\* A ClientDwarf with the needs (h, e, hp), standing at p with nothing to do.
\* currentTask "none" is null; target NoPoint and path <<>> are undefined.
\* The animation, direction, dialogue and memory fields steer no decision and
\* are not carried.
NewDwarf(p, h, e, hp) ==
    [x |-> p[1], y |-> p[2], state |-> "idle", currentTask |-> "none",
     target |-> NoPoint, path |-> <<>>, hunger |-> h, energy |-> e, happiness |-> hp]

\* useDwarves.updateDwarf(id, data).
updateDwarf(ds, id, data) ==
    [d \in DOMAIN ds |-> IF d = id THEN Merge(ds[d], data) ELSE ds[d]]

\* useDwarves.moveDwarf(id, path): step onto path[0] and keep the rest.
moveDwarf(ds, id, path) ==
    IF id \notin DOMAIN ds \/ path = <<>> THEN ds
    ELSE updateDwarf(ds, id, [x |-> path[1][1], y |-> path[1][2], path |-> Tail(path)])

\* useDwarves.assignTask(id, task, target).
assignTask(ds, id, task, target) ==
    IF id \notin DOMAIN ds THEN ds
    ELSE updateDwarf(ds, id, [currentTask |-> task, state |-> task, target |-> target])

\* useDwarves.satisfyNeed(id, needType, amount).
satisfyNeed(ds, id, needType, amount) ==
    IF id \notin DOMAIN ds THEN ds
    ELSE CASE needType = "hunger" ->
                updateDwarf(ds, id, [hunger |-> Max(0, Min(100, ds[id].hunger - amount))])
           [] needType = "energy" ->
                updateDwarf(ds, id, [energy |-> Max(0, Min(100, ds[id].energy + amount))])
           [] needType = "happiness" ->
                updateDwarf(ds, id, [happiness |-> Max(0, Min(100, ds[id].happiness + amount))])

\* A ClientResource.
NewResource(id, type, p, quantity, regenerate) ==
    [id |-> id, type |-> type, x |-> p[1], y |-> p[2], quantity |-> quantity,
     regenerate |-> regenerate, isBeingHarvested |-> FALSE]

\* A ClientBuilding.
NewBuilding(id, type, p, complete, progress) ==
    [id |-> id, type |-> type, x |-> p[1], y |-> p[2], width |-> 1, height |-> 1,
     complete |-> complete, progress |-> progress]

\* The client state the AI frame works on: the stores' lists and the world.
ClientState == [dwarves |-> dwarves, resources |-> resources, buildings |-> buildings,
                world |-> world]

\* The grid part of useBuilding.addResource: the resource's cell, when it is
\* inside the world, becomes a resource cell.
addResourceToWorld(w, resource) ==
    LET p == <<resource.x, resource.y>> IN
    IF w.exists /\ InBounds(w, p)
    THEN [w EXCEPT !.grid[p] = Merge(@, [type |-> "resource", resourceId |-> resource.id])]
    ELSE w

\* useBuilding.harvestResource without the floor at 0 of the new quantity.
harvestResourceMut(st, id, amount, dwarfId) ==
    IF id \notin DOMAIN st.resources THEN st
    ELSE [st EXCEPT !.resources[id] =
            Merge(@, [quantity |-> @.quantity - amount, isBeingHarvested |-> dwarfId # 0])]

\* useBuilding.harvestResource(id, amount, dwarfId) on the state st.
harvestResource(st, id, amount, dwarfId) ==
    IF id \notin DOMAIN st.resources THEN st
    ELSE LET resource == st.resources[id]
             newQuantity == Max(0, resource.quantity - amount)
             p == <<resource.x, resource.y>>
             updatedResource == Merge(resource, [quantity |-> newQuantity,
                                                 isBeingHarvested |-> dwarfId # 0])
             cleared == [st.world EXCEPT
                            !.grid[p] = Merge(@, [type |-> "terrain", resourceId |-> 0])]
         IN  [st EXCEPT
                !.resources[id] = updatedResource,
                !.world = IF /\ newQuantity = 0
                             /\ ~resource.regenerate
                             /\ st.world.exists
                             /\ InBounds(st.world, p)
                          THEN cleared ELSE @]

\* useBuilding.updateBuilding(id, data): the list only, the grid is left alone.
updateClientBuilding(bs, id, data) ==
    [b \in DOMAIN bs |-> IF b = id THEN Merge(bs[b], data) ELSE bs[b]]

\* useBuilding.completeBuildJob(buildingId), the buildings part.
completeBuildJob(bs, id) == updateClientBuilding(bs, id, [complete |-> TRUE, progress |-> 100])

\* ---------------------------------------- DwarfMovement: the movement loop

NoTick == [active |-> FALSE, i |-> 0, snap |-> <<>>]

\* The `for (const dwarf of dwarves)` loop of the interval callback from worker
\* i on.  `snap` is the list the callback closed over, ds the store's list.
\* The loop runs until it finishes (wait = 0) or reaches `await findPath` for
\* worker `wait`.
RECURSIVE MoveLoop(_, _, _)
MoveLoop(i, snap, ds) ==
    IF i > Len(snap) THEN [dwarves |-> ds, wait |-> 0]
    ELSE LET dwarf == snap[i] IN
         IF dwarf.path # <<>> THEN MoveLoop(i + 1, snap, moveDwarf(ds, i, dwarf.path))
         ELSE IF dwarf.target # NoPoint THEN [dwarves |-> ds, wait |-> i]
         ELSE MoveLoop(i + 1, snap, ds)

\* What is left unchanged by the movement loop.
MovementFrame ==
    UNCHANGED <<game, worldGrid, pathVars, storeVars, resources, buildings, world, needCheck,
                decisions, lastUpdateTime, lastNeedUpdateTime>>

\* The interval callback fires.  One callback is followed at a time: the next
\* one starts when the previous one has run to its end.
MovementTick ==
    /\ ~moveTick.active
    /\ LET r == MoveLoop(1, dwarves, dwarves) IN
        /\ dwarves' = r.dwarves
        /\ moveTick' = IF r.wait = 0 THEN NoTick
                       ELSE [active |-> TRUE, i |-> r.wait, snap |-> dwarves]
    /\ MovementFrame

\* The continuation behind `await findPath` with an else branch that leaves
\* the worker as it is when no path was found.
PathResponseMut ==
    /\ moveTick.active
    /\ LET i == moveTick.i
           dwarf == moveTick.snap[i]
           path == findPath(worldGrid, <<dwarf.x, dwarf.y>>, dwarf.target)
           applied == IF path # <<>>
                      THEN moveDwarf(updateDwarf(dwarves, i, [path |-> path]), i, path)
                      ELSE dwarves
           r == MoveLoop(i + 1, moveTick.snap, applied)
       IN  /\ dwarves' = r.dwarves
           /\ moveTick' = IF r.wait = 0 THEN NoTick
                          ELSE [moveTick EXCEPT !.i = r.wait]
    /\ MovementFrame

\* The server answers the awaited findPath with MemStorage.findPath(start,
\* target); the callback applies it and goes on with the next workers.
PathResponse ==
    /\ moveTick.active
    /\ LET i == moveTick.i
           dwarf == moveTick.snap[i]
           path == findPath(worldGrid, <<dwarf.x, dwarf.y>>, dwarf.target)
           applied == IF path # <<>>
                      THEN moveDwarf(updateDwarf(dwarves, i, [path |-> path]), i, path)
                      ELSE updateDwarf(dwarves, i, [target |-> NoPoint,
                                                    currentTask |-> "idle", state |-> "idle"])
           r == MoveLoop(i + 1, moveTick.snap, applied)
       IN  /\ dwarves' = r.dwarves
           /\ moveTick' = IF r.wait = 0 THEN NoTick
                          ELSE [moveTick EXCEPT !.i = r.wait]
    /\ MovementFrame

\* The test of the target-reached effect.
AtTarget(dwarf) ==
    dwarf.path = <<>> /\ dwarf.target # NoPoint /\ <<dwarf.x, dwarf.y>> = dwarf.target

\* The effect that runs when the worker list has changed: every worker that
\* stands on its target with no path left loses the target.
TargetReachedEffect ==
    /\ \E d \in DOMAIN dwarves : AtTarget(dwarves[d])
    /\ dwarves' = [d \in DOMAIN dwarves |->
                      IF AtTarget(dwarves[d]) THEN Merge(dwarves[d], [target |-> NoPoint])
                      ELSE dwarves[d]]
    /\ UNCHANGED moveTick
    /\ MovementFrame

\* --------------------------------- AIControls, frame-loop version: the tasks

\* The task kinds decideNextTask draws from.
RandomTasks == {"mining", "woodcutting", "building", "socializing", "hauling"}

\* The index pickRandom draws: candidate lists hold at most NumDwarves - 1
\* entries (the other workers; one resource of each kind).
PickIndex == 0 .. NumDwarves - 2

\* The indexes pickRandom can draw on a list.
Picks(list) == 0 .. Max(0, Len(list) - 1)

\* pickRandom(array) on a non-empty array, for the drawn index k.
pickRandom(array, k) == array[(k % Len(array)) + 1]

\* The updates that send a worker back to idle.
GoIdle == [state |-> "idle", currentTask |-> "none", target |-> NoPoint]

\* processHarvestingTask(dwarf): dwarf and resources are the rendered values
\* in snap, the writes go to the stores in st.
processHarvestingTask(st, snap, id) ==
    LET dwarf == snap.dwarves[id]
        AtTargetCell(r) == <<r.x, r.y>> = dwarf.target
        found == SelectSeq(snap.resources, AtTargetCell)
    IN  IF dwarf.target = NoPoint THEN st
        ELSE IF found = <<>> THEN [st EXCEPT !.dwarves = updateDwarf(@, id, GoIdle)]
        ELSE LET resource == found[1]
                 harvested == harvestResource(st, resource.id, 1, id)
             IN  IF dwarf.x = resource.x /\ dwarf.y = resource.y
                 THEN IF resource.quantity <= 1
                      THEN [harvested EXCEPT !.dwarves = updateDwarf(@, id, GoIdle)]
                      ELSE harvested
                 ELSE st

\* processBuildingTask(dwarf).
processBuildingTask(st, snap, id) ==
    LET dwarf == snap.dwarves[id]
        Covers(b) == /\ dwarf.target[1] >= b.x /\ dwarf.target[1] < b.x + b.width
                     /\ dwarf.target[2] >= b.y /\ dwarf.target[2] < b.y + b.height
        found == SelectSeq(snap.buildings, Covers)
    IN  IF dwarf.target = NoPoint THEN st
        ELSE IF found = <<>> THEN [st EXCEPT !.dwarves = updateDwarf(@, id, GoIdle)]
        ELSE LET building == found[1]
                 newProgress == Min(100, building.progress + 5)
                 worked == [st EXCEPT !.buildings =
                               updateClientBuilding(@, building.id, [progress |-> newProgress])]
             IN  IF getManhattanDistance(<<dwarf.x, dwarf.y>>, <<building.x, building.y>>) <= 1
                 THEN IF newProgress >= 100
                      THEN [worked EXCEPT !.buildings = completeBuildJob(@, building.id),
                                          !.dwarves = updateDwarf(@, id, GoIdle)]
                      ELSE worked
                 ELSE st

\* processDwarfTask with a sleeping branch that only waits.
processDwarfTaskMut(st, snap, id) ==
    LET dwarf == snap.dwarves[id] IN
    CASE dwarf.state \in {"mining", "woodcutting"} -> processHarvestingTask(st, snap, id)
      [] dwarf.state = "building" -> processBuildingTask(st, snap, id)
      [] dwarf.state = "eating" ->
            IF dwarf.hunger <= 10
            THEN [st EXCEPT !.dwarves =
                     updateDwarf(@, id, [state |-> "idle", currentTask |-> "none"])]
            ELSE [st EXCEPT !.dwarves = satisfyNeed(@, id, "hunger", 10)]
      [] OTHER -> st

\* processDwarfTask(dwarf).
processDwarfTask(st, snap, id) ==
    LET dwarf == snap.dwarves[id] IN
    CASE dwarf.state \in {"mining", "woodcutting"} -> processHarvestingTask(st, snap, id)
      [] dwarf.state = "building" -> processBuildingTask(st, snap, id)
      [] dwarf.state = "eating" ->
            IF dwarf.hunger <= 10
            THEN [st EXCEPT !.dwarves =
                     updateDwarf(@, id, [state |-> "idle", currentTask |-> "none"])]
            ELSE [st EXCEPT !.dwarves = satisfyNeed(@, id, "hunger", 10)]
      [] dwarf.state = "sleeping" ->
            IF dwarf.energy >= 90
            THEN [st EXCEPT !.dwarves =
                     updateDwarf(@, id, [state |-> "idle", currentTask |-> "none"])]
            ELSE st
      [] OTHER -> st

\* The target assignTaskWithTarget finds for the task, NoPoint when none.
TaskTarget(snap, id, task, k) ==
    LET IsStone(r) == r.type = "stone" /\ r.quantity > 0
        IsWood(r) == r.type = "wood" /\ r.quantity > 0
        Incomplete(b) == ~b.complete
        stone == SelectSeq(snap.resources, IsStone)
        wood == SelectSeq(snap.resources, IsWood)
        incompleteBuildings == SelectSeq(snap.buildings, Incomplete)
        otherDwarves == SelectSeq([d \in DOMAIN snap.dwarves |-> d], LAMBDA d : d # id)
        At(r) == <<r.x, r.y>>
    IN  CASE task = "mining" /\ stone # <<>> -> At(pickRandom(stone, k))
          [] task = "woodcutting" /\ wood # <<>> -> At(pickRandom(wood, k))
          [] task = "building" /\ incompleteBuildings # <<>> ->
                At(pickRandom(incompleteBuildings, k))
          [] task = "socializing" /\ otherDwarves # <<>> ->
                At(snap.dwarves[pickRandom(otherDwarves, k)])
          [] OTHER -> NoPoint

\* assignTaskWithTarget(dwarf, task): the task is assigned when a target was
\* found, and always when it is eating or sleeping.
assignTaskWithTarget(st, snap, id, task, k) ==
    LET target == TaskTarget(snap, id, task, k) IN
    IF target # NoPoint \/ task \in {"eating", "sleeping"}
    THEN [st EXCEPT !.dwarves = assignTask(@, id, task, target)]
    ELSE st

\* decideNextTask(dwarf) for the drawn task and index.
decideNextTask(st, snap, id, task, k) ==
    LET dwarf == snap.dwarves[id] IN
    IF dwarf.hunger > 70 THEN [st EXCEPT !.dwarves = assignTask(@, id, "eating", NoPoint)]
    ELSE IF dwarf.energy < 30
         THEN [st EXCEPT !.dwarves = assignTask(@, id, "sleeping", NoPoint)]
    ELSE assignTaskWithTarget(st, snap, id, task, k)

\* processAI(dwarf, currentTime).
processAI(st, snap, id, task, k) ==
    IF snap.dwarves[id].state # "idle" THEN processDwarfTask(st, snap, id)
    ELSE decideNextTask(st, snap, id, task, k)

\* The `dwarves.forEach` of the frame callback from worker i on.  Every worker
\* is stamped with the same time, so all of them are due in the same frames.
RECURSIVE AIFrameLoop(_, _, _, _)
AIFrameLoop(i, snap, st, draw) ==
    IF i > Len(snap.dwarves) THEN st
    ELSE AIFrameLoop(i + 1, snap, processAI(st, snap, i, draw[i][1], draw[i][2]), draw)

\* A frame in which the workers are due for a decision: phase is playing and
\* the world is set.
AIFrame ==
    /\ world.exists
    /\ \E draw \in [DOMAIN dwarves -> RandomTasks \X PickIndex] :
         LET st == AIFrameLoop(1, ClientState, ClientState, draw) IN
            /\ dwarves' = st.dwarves
            /\ resources' = st.resources
            /\ buildings' = st.buildings
            /\ world' = st.world
    /\ UNCHANGED <<game, worldGrid, pathVars, storeVars, moveTick, needCheck, decisions,
                   lastUpdateTime, lastNeedUpdateTime>>

\* --------------------------------------- specification: the task life cycle

\* The cells whose coordinates are all positive: the path finding route turns
\* down a request with a zero coordinate, so workers and targets stay here.
LifeCells == {p \in Cells(GridW, GridH) : p[1] >= 1 /\ p[2] >= 1}

\* Where the stone resource and the building site lie.
StoneCell == <<GridW - 1, GridH - 1>>

SiteCell == <<1, GridH - 1>>

\* The game is running with idle workers whose needs meet no threshold, one
\* stone resource that does not regenerate, and possibly one building that is
\* nearly finished.  The server has either no world or an open one.
InitLife ==
    /\ worldGrid \in {NoGrid, EmptyGrid(GridW, GridH)}
    /\ StoreIdle
    /\ pathReq = NoReq
    /\ pathRes = <<>>
    /\ dwarves \in {[d \in DwarfIds |-> NewDwarf(pos[d], 50, 50, 50)] :
                       pos \in [DwarfIds -> LifeCells]}
    /\ resources = <<NewResource(1, "stone", StoneCell, StoneQuantity, FALSE)>>
    /\ buildings \in {<<>>, <<NewBuilding(1, "floor", SiteCell, FALSE, 95)>>}
    /\ world = addResourceToWorld(EmptyGrid(GridW, GridH), resources[1])
    /\ moveTick = NoTick
    /\ needCheck = <<>>
    /\ decisions = <<>>
    /\ lastUpdateTime = <<>>
    /\ lastNeedUpdateTime = 0
    /\ game = GamePlaying

NextLife ==
    \/ MovementTick
    \/ PathResponse
    \/ TargetReachedEffect
    \/ AIFrame

SpecLife == InitLife /\ [][NextLife]_vars

\* The interval timer and the frame loop keep firing, every pending effect
\* runs and every findPath request is answered.  PathResponse is the only step
\* a suspended callback can take and it always changes moveTick, so its weak
\* fairness is stated as: the callback is not suspended for ever.
FairSpecLife ==
    /\ SpecLife
    /\ WF_vars(MovementTick)
    /\ WF_vars(TargetReachedEffect)
    /\ WF_vars(AIFrame)
    /\ []<>(~moveTick.active)

\* ------------------------------------------- claims on the task life cycle

\* A worker that has just been given the mining task on the stone resource.
MiningAssigned(d) ==
    dwarves[d].state = "mining" /\ dwarves[d].target = StoneCell

HungerMet(dwarf) == dwarf.hunger > 80 /\ dwarf.state # "eating"

EnergyMet(dwarf) == dwarf.energy < 20 /\ dwarf.state # "sleeping"

HappinessMet(dwarf) == dwarf.happiness < 30

\* The first block from block n on whose test is met: there the run waits for
\* getDwarfThoughts.  "done" when no later test is met and the run returns.
StageFrom(dwarf, n) ==
    IF n <= 1 /\ HungerMet(dwarf) THEN "hunger"
    ELSE IF n <= 2 /\ EnergyMet(dwarf) THEN "energy"
    ELSE IF n <= 3 /\ HappinessMet(dwarf) THEN "happiness"
    ELSE "done"

\* The workers within the socializing range of worker id, in list order.
NearbyDwarves(ds, id) ==
    SelectSeq([d \in DOMAIN ds |-> d],
              LAMBDA d : d # id /\ getManhattanDistance(<<ds[id].x, ds[id].y>>,
                                                        <<ds[d].x, ds[d].y>>) < 5)

\* No run of checkCriticalNeeds has been made for the worker.
NoCheck(dwarf) == [stage |-> "idle", snap |-> dwarf, calls |-> 0]

NeedsFrame ==
    UNCHANGED <<game, worldGrid, pathVars, storeVars, resources, buildings, world, moveTick,
                decisions, lastUpdateTime, lastNeedUpdateTime>>

\* updateAllNeeds calls checkCriticalNeeds(dwarf) with the rendered worker; the
\* run goes on to its first await, or returns when no test is met.  One run
\* per worker is followed at a time; `calls` counts its assignTask calls.
CheckCriticalNeedsCall(d) ==
    /\ needCheck[d].stage \in {"idle", "done"}
    /\ needCheck' = [needCheck EXCEPT ![d] =
                        [stage |-> StageFrom(dwarves[d], 1), snap |-> dwarves[d], calls |-> 0]]
    /\ UNCHANGED dwarves
    /\ NeedsFrame

\* getDwarfThoughts resolves and the run goes on behind the await: the block
\* assigns its task, then the later tests are made on the same worker value.
\* `roll` is Math.random() > 0.7.
CheckCriticalNeedsResume(d, roll) ==
    LET run == needCheck[d]
        nearby == NearbyDwarves(dwarves, d)
    IN  \/ /\ run.stage = "hunger"
           /\ dwarves' = assignTask(dwarves, d, "eating", NoPoint)
           /\ needCheck' = [needCheck EXCEPT ![d].stage = StageFrom(run.snap, 2),
                                             ![d].calls = @ + 1]
           /\ NeedsFrame
        \/ /\ run.stage = "energy"
           /\ dwarves' = assignTask(dwarves, d, "sleeping", NoPoint)
           /\ needCheck' = [needCheck EXCEPT ![d].stage = StageFrom(run.snap, 3),
                                             ![d].calls = @ + 1]
           /\ NeedsFrame
        \/ /\ run.stage = "happiness"
           /\ IF roll /\ nearby # <<>>
              THEN /\ dwarves' = assignTask(dwarves, d, "socializing", NoPoint)
                   /\ needCheck' = [needCheck EXCEPT ![d].stage = "done", ![d].calls = @ + 1]
              ELSE /\ dwarves' = dwarves
                   /\ needCheck' = [needCheck EXCEPT ![d].stage = "done"]
           /\ NeedsFrame

\* ------------------------------ specification: the critical-need check runs

\* The need values workers are given: one on each side of every threshold.
HungerLevels == {50, 90}

EnergyLevels == {10, 50}

HappinessLevels == {10, 50}

\* Worker d stands `gap` cells to the right of worker d - 1.
LineUp(d, gap) == <<1 + (d - 1) * gap, 1>>

\* What a worker starts with: an activity and a value for each need.
NeedProfiles ==
    [state : {"idle", "eating", "sleeping"}, hunger : HungerLevels,
     energy : EnergyLevels, happiness : HappinessLevels]

\* A worker at p that is in the profile's activity with the profile's needs.
ProfiledDwarf(p, profile) ==
    Merge(NewDwarf(p, profile.hunger, profile.energy, profile.happiness),
          [state |-> profile.state,
           currentTask |-> IF profile.state = "idle" THEN "none" ELSE profile.state])

\* Workers with any combination of needs, idle or already eating or sleeping,
\* next to each other or out of each other's range.
InitNeeds ==
    /\ worldGrid = NoGrid
    /\ StoreIdle
    /\ pathReq = NoReq
    /\ pathRes = <<>>
    /\ dwarves \in {[d \in DwarfIds |-> ProfiledDwarf(LineUp(d, gap), profile[d])] :
                       profile \in [DwarfIds -> NeedProfiles], gap \in {1, 5}}
    /\ resources = <<>>
    /\ buildings = <<>>
    /\ world = EmptyGrid(GridW, GridH)
    /\ moveTick = NoTick
    /\ needCheck = [d \in DwarfIds |-> NoCheck(dwarves[d])]
    /\ decisions = <<>>
    /\ lastUpdateTime = <<>>
    /\ lastNeedUpdateTime = 0
    /\ game = GamePlaying

NextNeeds ==
    \E d \in DwarfIds :
        \/ CheckCriticalNeedsCall(d)
        \/ \E roll \in BOOLEAN : CheckCriticalNeedsResume(d, roll)

SpecNeeds == InitNeeds /\ [][NextNeeds]_vars

\* ------------------------------------ claims on the critical-need check

\* C4: when hunger is above 80, energy below 20 and happiness below 30 at
\* once, the task the worker holds once the check has finished is eating.
C4_HungerFirst ==
    \A d \in DOMAIN needCheck :
        (/\ needCheck[d].stage = "done"
         /\ needCheck[d].snap.hunger > 80
         /\ needCheck[d].snap.energy < 20
         /\ needCheck[d].snap.happiness < 30)
        => dwarves[d].currentTask = "eating"

\* C5: one run of the critical-need check makes at most one assignTask call
\* for its worker.
C5_OneOverridePerRun ==
    \A d \in DOMAIN needCheck : needCheck[d].calls <= 1

\* ------------------------------------------ AIControls, interval version

CRITICAL_HUNGER_THRESHOLD == 70

CRITICAL_ENERGY_THRESHOLD == 30

CRITICAL_HAPPINESS_THRESHOLD == 30

\* The task kinds the response text is searched for.
TaskKinds ==
    {"mining", "woodcutting", "building", "eating", "sleeping", "socializing", "crafting",
     "hauling", "idle"}

\* The position of the first entry of a list, NoPoint when the list is empty:
\* what `find` and the following `if` yield.
FirstAt(list) == IF list = <<>> THEN NoPoint ELSE <<list[1].x, list[1].y>>

\* The complete buildings of a type, in list order.
CompleteOf(bs, type) == SelectSeq(bs, LAMBDA b : b.type = type /\ b.complete)

\* The resources of a type, in list order.
ResourcesOf(rs, type) == SelectSeq(rs, LAMBDA r : r.type = type)

\* The outcome when the check makes no assignTask call.
NoOverride(critical) ==
    [critical |-> critical, assigned |-> FALSE, task |-> "none", target |-> NoPoint]

Override(task, target) ==
    [critical |-> TRUE, assigned |-> TRUE, task |-> task, target |-> target]

\* checkCriticalNeeds(dwarf) of the interval version: what it returns and the
\* assignTask call it makes, if any.
checkCriticalNeeds(ds, rs, bs, id) ==
    LET dwarf == ds[id]
        hasCriticalHunger == dwarf.hunger >= CRITICAL_HUNGER_THRESHOLD
        hasCriticalEnergy == dwarf.energy <= CRITICAL_ENERGY_THRESHOLD
        hasCriticalHappiness == dwarf.happiness <= CRITICAL_HAPPINESS_THRESHOLD
        foodSource == FirstAt(ResourcesOf(rs, "food"))
        table == FirstAt(CompleteOf(bs, "table"))
        bed == FirstAt(CompleteOf(bs, "bed"))
        nearby == NearbyDwarves(ds, id)
    IN  IF ~hasCriticalHunger /\ ~hasCriticalEnergy /\ ~hasCriticalHappiness
        THEN NoOverride(FALSE)
        ELSE IF hasCriticalHunger
             THEN IF foodSource # NoPoint THEN Override("eating", foodSource)
                  ELSE IF table # NoPoint THEN Override("eating", table)
                  ELSE NoOverride(TRUE)
        ELSE IF hasCriticalEnergy THEN Override("sleeping", bed)
        ELSE IF nearby # <<>>
             THEN Override("socializing", <<ds[nearby[1]].x, ds[nearby[1]].y>>)
             ELSE NoOverride(TRUE)

\* The target getAIDecision finds for the chosen task.
DecisionTarget(ds, rs, bs, id, chosenTask, k) ==
    LET Free(type) == SelectSeq(rs, LAMBDA r : r.type = type /\ ~r.isBeingHarvested)
        foodSource == FirstAt(ResourcesOf(rs, "food"))
        nearby == NearbyDwarves(ds, id)
    IN  CASE chosenTask = "mining" -> FirstAt(Free("stone"))
          [] chosenTask = "woodcutting" -> FirstAt(Free("wood"))
          [] chosenTask = "building" -> FirstAt(SelectSeq(bs, LAMBDA b : ~b.complete))
          [] chosenTask = "eating" ->
                IF foodSource # NoPoint THEN foodSource ELSE FirstAt(CompleteOf(bs, "table"))
          [] chosenTask = "sleeping" -> FirstAt(CompleteOf(bs, "bed"))
          [] chosenTask = "socializing" ->
                IF nearby # <<>> THEN <<ds[nearby[1]].x, ds[nearby[1]].y>> ELSE NoPoint
          [] chosenTask = "crafting" -> FirstAt(CompleteOf(bs, "workshop"))
          [] chosenTask = "hauling" ->
                IF rs # <<>> THEN FirstAt(<<pickRandom(rs, k)>>) ELSE NoPoint
          [] OTHER -> NoPoint

\* The getAIDecision calls of one worker that wait for the oracle: `fresh`
\* ones were sent after the worker's last task assignment, `stale` ones
\* before it.
NoDecisions == [fresh |-> 0, stale |-> 0]

InFlight(d) == decisions[d].fresh + decisions[d].stale

\* An assignTask call on the worker turns its waiting calls stale.
Overtaken(calls) == [fresh |-> 0, stale |-> calls.fresh + calls.stale]

\* The `dwarves.forEach` of the timer callback from worker i on.  A worker
\* whose last decision is recent is skipped; otherwise checkCriticalNeeds runs
\* and, when it returns false, getAIDecision, which sends its request unless
\* the worker already has a task.  `acc` holds the worker list and the calls.
RECURSIVE TimerLoop(_, _, _)
TimerLoop(i, snap, acc) ==
    IF i > Len(snap) THEN acc
    ELSE LET outcome == checkCriticalNeeds(snap, resources, buildings, i)
             asks == ~outcome.critical /\ snap[i].currentTask \in {"none", "idle"}
         IN  IF lastUpdateTime[i] THEN TimerLoop(i + 1, snap, acc)
             ELSE IF outcome.assigned
                  THEN TimerLoop(i + 1, snap,
                         [dwarves |-> assignTask(acc.dwarves, i, outcome.task, outcome.target),
                          decisions |-> [acc.decisions EXCEPT ![i] = Overtaken(@)]])
             ELSE IF asks
                  THEN TimerLoop(i + 1, snap,
                         [acc EXCEPT !.decisions[i].fresh = @ + 1])
             ELSE TimerLoop(i + 1, snap, acc)

OracleFrame ==
    UNCHANGED <<game, worldGrid, pathVars, storeVars, resources, buildings, world, moveTick,
                needCheck, lastNeedUpdateTime>>

\* The one-second timer fires.  No worker has more than MaxInFlight calls
\* waiting.
TimerTick ==
    /\ \A d \in DwarfIds : InFlight(d) < MaxInFlight
    /\ LET acc == TimerLoop(1, dwarves, [dwarves |-> dwarves, decisions |-> decisions]) IN
        /\ dwarves' = acc.dwarves
        /\ decisions' = acc.decisions
    /\ UNCHANGED lastUpdateTime
    /\ OracleFrame

\* getDwarfThoughts resolves for one waiting call of worker d (its own
\* fallback text included) and the text names chosenTask: the task is assigned
\* with the target found and the decision time is recorded.
DecisionResponse(d, chosenTask, k) ==
    /\ InFlight(d) > 0
    /\ dwarves' = assignTask(dwarves, d, chosenTask,
                             DecisionTarget(dwarves, resources, buildings, d, chosenTask, k))
    /\ decisions' = [decisions EXCEPT ![d] = [fresh |-> 0, stale |-> InFlight(d) - 1]]
    /\ lastUpdateTime' = [lastUpdateTime EXCEPT ![d] = TRUE]
    /\ OracleFrame

\* The decision interval has passed since worker d's last decision.
IntervalElapses(d) ==
    /\ lastUpdateTime[d]
    /\ lastUpdateTime' = [lastUpdateTime EXCEPT ![d] = FALSE]
    /\ UNCHANGED <<dwarves, decisions>>
    /\ OracleFrame

\* ------------------------------------- specification: the oracle decisions

\* Idle workers with any combination of needs, a stone resource, possibly a
\* food resource and possibly a finished bed.
InitOracle ==
    /\ worldGrid = NoGrid
    /\ StoreIdle
    /\ pathReq = NoReq
    /\ pathRes = <<>>
    /\ dwarves \in {[d \in DwarfIds |-> ProfiledDwarf(LineUp(d, gap), profile[d])] :
                       profile \in [DwarfIds -> {p \in NeedProfiles : p.state = "idle"}],
                       gap \in {1, 5}}
    /\ resources \in {<<NewResource(1, "stone", <<1, 2>>, StoneQuantity, FALSE)>>,
                      <<NewResource(1, "stone", <<1, 2>>, StoneQuantity, FALSE),
                        NewResource(2, "food", <<2, 2>>, StoneQuantity, TRUE)>>}
    /\ buildings \in {<<>>, <<NewBuilding(1, "bed", <<3, 2>>, TRUE, 100)>>}
    /\ world = NoGrid
    /\ moveTick = NoTick
    /\ needCheck = <<>>
    /\ decisions = [d \in DwarfIds |-> NoDecisions]
    /\ lastUpdateTime = [d \in DwarfIds |-> FALSE]
    /\ lastNeedUpdateTime = 0
    /\ game = GamePlaying

NextOracle ==
    \/ TimerTick
    \/ \E d \in DwarfIds :
        \/ \E chosenTask \in TaskKinds, k \in Picks(resources) : DecisionResponse(d, chosenTask, k)
        \/ IntervalElapses(d)

SpecOracle == InitOracle /\ [][NextOracle]_vars

\* ------------------------------------------ claims on the oracle decisions

\* The task, state and target of a worker.
TaskView(dwarf) == <<dwarf.currentTask, dwarf.state, dwarf.target>>

\* C6: a response to a decision request that was in flight while a task was
\* assigned to its worker is discarded: delivering it changes neither the
\* worker's task nor its state nor its target.  The step looked at delivers a
\* response while every waiting call of the worker is stale.
C6_LateResponseDiscarded ==
    [][\A d \in DOMAIN decisions :
          (/\ decisions[d].fresh = 0
           /\ decisions[d].stale > 0
           /\ decisions'[d].stale < decisions[d].stale)
          => TaskView(dwarves'[d]) = TaskView(dwarves[d])
      ]_vars

\* ------------------------------------------- further claims on path finding

\* C11: findPath(p, p) returns the empty path for every point p, whether or
\* not a world has been generated.
C11_IdentityEmpty ==
    (pathReq.called /\ pathReq.start = pathReq.end) => pathRes = <<>>

\* ------------------------------------ AIControls, frame loop: the need update

\* useDwarves.updateNeeds without its clamp: the sums as they come.
updateNeedsMut(ds, id, hunger, energy, happiness) ==
    updateDwarf(ds, id, [hunger |-> ds[id].hunger + hunger,
                         energy |-> ds[id].energy + energy,
                         happiness |-> ds[id].happiness + happiness])

\* useDwarves.updateNeeds(id, hunger, energy, happiness): the three deltas are
\* added and each sum is cut to 0 .. 100.
updateNeeds(ds, id, hunger, energy, happiness) ==
    updateDwarf(ds, id, [hunger |-> Max(0, Min(100, ds[id].hunger + hunger)),
                         energy |-> Max(0, Min(100, ds[id].energy + energy)),
                         happiness |-> Max(0, Min(100, ds[id].happiness + happiness))])

\* A Math.random() draw, by its lowest and its highest whole outcome.
UnitDraws == {0, 1}

\* The energy a worker loses in one update, for the drawn unit u: below one
\* half when idle, 1 up to 3 when working, none when sleeping, below 1
\* otherwise.  Amounts are whole numbers, the fractions are cut off.
EnergyDecrease(state, u) ==
    IF state \in {"mining", "woodcutting", "building"} THEN 1 + u ELSE 0

\* The happiness change of one update.
HappinessChange(dwarf) ==
    (IF dwarf.hunger > 70 THEN -2 ELSE 0) + (IF dwarf.energy < 30 THEN -2 ELSE 0)
      + (IF dwarf.state = "socializing" THEN 3 ELSE 0)

\* updateAllNeeds from worker i on: snap is the rendered list, ds the store's
\* list; draw[i] holds the two random draws made for worker i.
RECURSIVE updateAllNeeds(_, _, _, _)
updateAllNeeds(i, snap, ds, draw) ==
    IF i > Len(snap) THEN ds
    ELSE LET dwarf == snap[i]
             rested == IF dwarf.state = "sleeping"
                       THEN satisfyNeed(ds, i, "energy", 5 + 4 * draw[i][2])
                       ELSE ds
         IN  updateAllNeeds(i + 1, snap,
                            updateNeeds(rested, i, 1 + draw[i][1],
                                        0 - EnergyDecrease(dwarf.state, draw[i][2]),
                                        HappinessChange(dwarf)),
                            draw)

\* A frame in which the need update is due.  updateAllNeeds runs and starts
\* checkCriticalNeeds for every rendered worker (a worker whose earlier run
\* still waits keeps that run); when the decision interval has elapsed too
\* (aiDue), the frame goes on to processAI for every worker.
NeedUpdateFrame ==
    /\ world.exists
    /\ lastNeedUpdateTime < MaxNeedUpdates
    /\ lastNeedUpdateTime' = lastNeedUpdateTime + 1
    /\ needCheck' = [d \in DOMAIN needCheck |->
                        IF needCheck[d].stage \in {"idle", "done"}
                        THEN [stage |-> StageFrom(dwarves[d], 1), snap |-> dwarves[d],
                              calls |-> 0]
                        ELSE needCheck[d]]
    /\ \E draw \in [DOMAIN dwarves -> UnitDraws \X UnitDraws] :
         LET updated == [ClientState EXCEPT
                            !.dwarves = updateAllNeeds(1, dwarves, dwarves, draw)]
             Outcomes ==
                {updated} \cup {AIFrameLoop(1, ClientState, updated, pick) :
                                   pick \in [DOMAIN dwarves -> RandomTasks \X PickIndex]}
         IN  \E st \in Outcomes :
                /\ dwarves' = st.dwarves
                /\ resources' = st.resources
                /\ buildings' = st.buildings
                /\ world' = st.world
    /\ UNCHANGED <<game, worldGrid, pathVars, storeVars, moveTick, decisions, lastUpdateTime>>

\* ------------------------------------- specification: the needs over time

\* Need values next to the ends of the scale.
NeedEdges == {[hunger |-> 99, energy |-> 1, happiness |-> 1],
              [hunger |-> 15, energy |-> 99, happiness |-> 99]}

EdgeProfiles ==
    {[state |-> a, hunger |-> n.hunger, energy |-> n.energy, happiness |-> n.happiness] :
        a \in {"idle", "mining", "sleeping", "socializing"}, n \in NeedEdges}

\* An idle worker whose needs are far from every threshold.
CalmProfile == [state |-> "idle", hunger |-> 50, energy |-> 50, happiness |-> 50]

\* The first worker is in any activity with needs next to either end of the
\* scale, the others are calm; the world has no resources and no buildings.
InitNeedTicks ==
    /\ worldGrid = NoGrid
    /\ StoreIdle
    /\ pathReq = NoReq
    /\ pathRes = <<>>
    /\ dwarves \in {[d \in DwarfIds |->
                        ProfiledDwarf(LineUp(d, 1), IF d = 1 THEN edge ELSE CalmProfile)] :
                       edge \in EdgeProfiles}
    /\ resources = <<>>
    /\ buildings = <<>>
    /\ world = EmptyGrid(GridW, GridH)
    /\ moveTick = NoTick
    /\ needCheck = [d \in DwarfIds |-> NoCheck(dwarves[d])]
    /\ decisions = <<>>
    /\ lastUpdateTime = <<>>
    /\ lastNeedUpdateTime = 0
    /\ game = GamePlaying

NextNeedTicks ==
    \/ NeedUpdateFrame
    \/ AIFrame
    \/ \E d \in DwarfIds, roll \in BOOLEAN : CheckCriticalNeedsResume(d, roll)

SpecNeedTicks == InitNeedTicks /\ [][NextNeedTicks]_vars

\* --------------------------------------------------- claims on the needs

\* C12: hunger, energy and happiness of every worker stay within 0 .. 100 under
\* any interleaving of need updates (updateNeeds) and need satisfaction steps
\* (satisfyNeed).
C12_NeedsInRange ==
    \A d \in DOMAIN dwarves :
        /\ dwarves[d].hunger >= 0 /\ dwarves[d].hunger <= 100
        /\ dwarves[d].energy >= 0 /\ dwarves[d].energy <= 100
        /\ dwarves[d].happiness >= 0 /\ dwarves[d].happiness <= 100

\* A need update has cut a worker's needs at both ends of the scale: hunger 99
\* plus the increase stops at 100, happiness 1 minus 4 stops at 0.
C12_Witness ==
    /\ lastNeedUpdateTime >= 1
    /\ \E d \in DOMAIN dwarves : dwarves[d].hunger = 100 /\ dwarves[d].happiness = 0

\* ------------------------------------------------- claims on harvesting

\* C13: across any sequence of harvest steps on a resource its quantity never
\* increases and never drops below 0, and it reaches 0 after finitely many
\* harvest steps: every step that harvests the resource lowers a quantity
\* that is above 0, so a quantity q is used up after at most q steps.
C13_HarvestRunsDown ==
    [][\A r \in DOMAIN resources :
          /\ resources'[r].quantity <= resources[r].quantity
          /\ resources'[r].quantity >= 0
          /\ resources'[r] # resources[r] =>
                (resources'[r].quantity < resources[r].quantity \/ resources[r].quantity = 0)
      ]_vars

\* The stone has been harvested down to nothing and its cell is terrain.
C13_Witness ==
    /\ resources[1].isBeingHarvested
    /\ resources[1].quantity = 0
    /\ world.grid[StoneCell].type = "terrain"

\* ------------------------------------------------ the server's task store

\* The kinds of the tasks created; a request without a type gets "idle".
ServerTaskTypes == {"idle", "mining", "building"}

\* MemStorage.createTask: the next id, nobody assigned (assignedTo undefined
\* is 0).
CreateTask ==
    /\ taskCounter <= MaxTasks
    /\ \E t \in ServerTaskTypes :
         LET id == taskCounter
             newTask == [id |-> id, type |-> t, assignedTo |-> 0]
         IN /\ taskStore' = (id :> newTask) @@ taskStore
            /\ taskCounter' = id + 1
    /\ UNCHANGED <<worldGrid, buildingStore, buildingCounter, resourceStore, resourceCounter,
                   dwarfStore, worldSeed, response, pathVars, clientVars>>

\* MemStorage.assignTask that writes the task without looking for the worker.
storageAssignTaskNoWorker(ts, ds, taskId, dwarfId) ==
    IF taskId \notin DOMAIN ts
    THEN [found |-> FALSE, taskStore |-> ts, dwarfStore |-> ds]
    ELSE [found |-> dwarfId \in DOMAIN ds,
          taskStore |-> [ts EXCEPT ![taskId].assignedTo = dwarfId],
          dwarfStore |-> ds]

\* MemStorage.assignTask that records the worker on the task only.
storageAssignTaskNoState(ts, ds, taskId, dwarfId) ==
    IF taskId \notin DOMAIN ts \/ dwarfId \notin DOMAIN ds
    THEN [found |-> FALSE, taskStore |-> ts, dwarfStore |-> ds]
    ELSE [found |-> TRUE,
          taskStore |-> [ts EXCEPT ![taskId].assignedTo = dwarfId],
          dwarfStore |-> ds]

\* MemStorage.assignTask(taskId, dwarfId) on the stores ts and ds: undefined
\* (found FALSE) when the task or the worker is missing, otherwise the task
\* gets the worker and the worker the task's type as currentTask and state.
storageAssignTask(ts, ds, taskId, dwarfId) ==
    IF taskId \notin DOMAIN ts THEN [found |-> FALSE, taskStore |-> ts, dwarfStore |-> ds]
    ELSE IF dwarfId \notin DOMAIN ds
         THEN [found |-> FALSE, taskStore |-> ts, dwarfStore |-> ds]
    ELSE [found |-> TRUE,
          taskStore |-> [ts EXCEPT ![taskId] = Merge(@, [assignedTo |-> dwarfId])],
          dwarfStore |-> [ds EXCEPT ![dwarfId] =
                            Merge(@, [currentTask |-> ts[taskId].type,
                                      state |-> ts[taskId].type])]]

\* The ids a request names: those handed out so far and one beyond them.
TaskIdsAsked == 1 .. MaxTasks + 1

DwarfIdsAsked == 1 .. NumDwarves + 1

\* What the task actions leave alone.
TaskFrame ==
    UNCHANGED <<worldGrid, buildingStore, buildingCounter, resourceStore, resourceCounter,
                taskCounter, worldSeed, pathVars, clientVars>>

\* MemStorage.assignTask called on the store.  The answer is kept in
\* `response`: status 200 stands for the task returned, 404 for undefined.
AssignTask ==
    /\ \E taskId \in TaskIdsAsked, dwarfId \in DwarfIdsAsked :
         LET r == storageAssignTask(taskStore, dwarfStore, taskId, dwarfId) IN
            /\ taskStore' = r.taskStore
            /\ dwarfStore' = r.dwarfStore
            /\ response' = [route |-> "assignTask", a |-> taskId, b |-> dwarfId,
                            status |-> IF r.found THEN 200 ELSE 404]
    /\ TaskFrame

\* POST /api/tasks/:id/assign with numeric ids: 404 when getDwarf or getTask
\* finds nothing, then storage.assignTask and 404 again when that returns
\* undefined, else the updated task.
AssignTaskRoute ==
    /\ \E taskId \in TaskIdsAsked, dwarfId \in DwarfIdsAsked :
         LET r == storageAssignTask(taskStore, dwarfStore, taskId, dwarfId)
             missing == dwarfId \notin DOMAIN dwarfStore \/ taskId \notin DOMAIN taskStore
         IN /\ taskStore' = IF missing THEN taskStore ELSE r.taskStore
            /\ dwarfStore' = IF missing THEN dwarfStore ELSE r.dwarfStore
            /\ response' = [route |-> "/api/tasks/:id/assign", a |-> taskId, b |-> dwarfId,
                            status |-> IF missing \/ ~r.found THEN 404 ELSE 200]
    /\ TaskFrame

\* The store after construction: the starter workers, no task.
InitTasks ==
    /\ worldGrid = NoGrid
    /\ StoreIdle
    /\ pathReq = NoReq
    /\ pathRes = <<>>
    /\ ClientIdle

NextTasks ==
    \/ CreateTask
    \/ AssignTask
    \/ AssignTaskRoute

SpecTasks == InitTasks /\ [][NextTasks]_vars

\* ----------------------------------------------- claims on task assignment

\* A step in which an assignment was answered: by the store or by the route.
AssignAnswered ==
    /\ response' # response
    /\ response'.route \in {"assignTask", "/api/tasks/:id/assign"}

\* C14: assignTask(taskId, workerId) with a task id or a worker id that the
\* store does not hold returns not-found and leaves every task record and
\* every worker record unchanged.
C14_AssignMissing ==
    [][(/\ AssignAnswered
        /\ response'.a \notin DOMAIN taskStore \/ response'.b \notin DOMAIN dwarfStore)
        => /\ response'.status = 404
           /\ taskStore' = taskStore
           /\ dwarfStore' = dwarfStore
      ]_vars

\* An assignment of an existing, unassigned task to a worker the store does
\* not hold has been answered with not-found.
C14_Witness ==
    /\ response.status = 404
    /\ response.a \in DOMAIN taskStore
    /\ response.b \notin DOMAIN dwarfStore
    /\ taskStore[response.a].assignedTo = 0

\* C15: a successful assignTask(taskId, workerId) sets the task's assignedTo to
\* the worker and the worker's currentTask and state to the task's kind, and
\* changes no other task and no other worker.
C15_AssignSets ==
    [][(AssignAnswered /\ response'.status = 200)
        => LET t == response'.a
               w == response'.b
           IN /\ t \in DOMAIN taskStore /\ w \in DOMAIN dwarfStore
              /\ taskStore' = [taskStore EXCEPT ![t].assignedTo = w]
              /\ dwarfStore' = [dwarfStore EXCEPT ![w].currentTask = taskStore[t].type,
                                                  ![w].state = taskStore[t].type]
      ]_vars

\* A mining or building task has been assigned: the task names the worker and
\* the worker is in the task's kind, while another worker is still idle.
C15_Witness ==
    /\ response.status = 200
    /\ taskStore[response.a].assignedTo = response.b
    /\ taskStore[response.a].type # "idle"
    /\ dwarfStore[response.b].state = taskStore[response.a].type
    /\ dwarfStore[response.b].currentTask = taskStore[response.a].type
    /\ \E w \in DOMAIN dwarfStore : w # response.b /\ dwarfStore[w].state = "idle"

\* ------------------------------------------- claims on the movement loop

\* The answer to the findPath call the movement callback is waiting for.
AwaitedPath ==
    LET dwarf == moveTick.snap[moveTick.i]
    IN  findPath(worldGrid, <<dwarf.x, dwarf.y>>, dwarf.target)

\* C16: when findPath returns the empty path for a worker that has a target
\* and no path, the worker's target is cleared and the worker is idle
\* afterwards; the empty result is not taken for a path (the worker neither
\* moves nor gets a path), and the movement loop goes on with the workers
\* after it: it ends, or waits for the path of a later worker, and every
\* worker it passed that had a path has taken its step.
C16_EmptyPathClearsTarget ==
    [][(moveTick.active /\ moveTick' # moveTick /\ AwaitedPath = <<>>)
        => LET i == moveTick.i
               Passed(j) == j > i /\ (~moveTick'.active \/ j < moveTick'.i)
           IN /\ dwarves'[i].target = NoPoint
              /\ dwarves'[i].state = "idle"
              /\ dwarves'[i].currentTask = "idle"
              /\ dwarves'[i].path = dwarves[i].path
              /\ <<dwarves'[i].x, dwarves'[i].y>> = <<dwarves[i].x, dwarves[i].y>>
              /\ ~moveTick'.active \/ moveTick'.i > i
              /\ \A j \in DOMAIN dwarves :
                    (Passed(j) /\ moveTick.snap[j].path # <<>>)
                    => dwarves'[j] = moveDwarf(dwarves, j, moveTick.snap[j].path)[j]
      ]_vars

\* A worker was sent back to idle by an empty path, and the callback that did
\* it is now waiting for the path of a later worker.
C16_Witness ==
    /\ moveTick.active
    /\ worldGrid.exists
    /\ \E d \in DOMAIN dwarves :
          /\ d < moveTick.i
          /\ moveTick.snap[d].target # NoPoint
          /\ moveTick.snap[d].path = <<>>
          /\ dwarves[d].currentTask = "idle"
          /\ dwarves[d].state = "idle"
          /\ dwarves[d].target = NoPoint

\* --------------------------------- the server store: progress of buildings

\* The partial updates that carry a progress or a completion flag.
ProgressUpdates == {[progress |-> p] : p \in {0, 50, 100}} \cup {[complete |-> c] : c \in BOOLEAN}

\* MemStorage.updateBuilding(id, updates), reached by PATCH /api/buildings/:id
\* with the request body as updates: the fields sent replace the stored ones.
UpdateBuildingProgress ==
    \E id \in DOMAIN buildingStore, updates \in ProgressUpdates :
        LET updatedBuilding == Merge(buildingStore[id], updates)
        IN /\ buildingStore' = [buildingStore EXCEPT ![id] = updatedBuilding]
           /\ worldGrid' = updateWorldGridForBuilding(worldGrid, updatedBuilding)
           /\ UNCHANGED <<buildingCounter, resourceStore, resourceCounter, taskVars, worldSeed,
                          response, pathVars, clientVars>>

NextProgress ==
    \/ CreateBuilding
    \/ UpdateBuilding
    \/ UpdateBuildingProgress

\* The store with its world generated, under creations and updates of
\* buildings.
SpecProgress == InitGridOps /\ [][NextProgress]_vars

\* C17: for every building, across any sequence of store operations, progress
\* never decreases, and once complete is true it stays true.
C17_ProgressMonotone ==
    [][\A id \in DOMAIN buildingStore :
          /\ buildingStore'[id].progress >= buildingStore[id].progress
          /\ buildingStore[id].complete => buildingStore'[id].complete
      ]_vars

\* ---------------------------------------------- claims on the grid bounds

\* The buildings a step has created or rewritten.
Written(id) == id \notin DOMAIN buildingStore \/ buildingStore'[id] # buildingStore[id]

\* C18: a grid request that addresses a cell outside the grid bounds, here a
\* building whose footprint lies partly outside, changes no cell, not even
\* the in-bounds part of the footprint.
C18_OutOfBoundsNoChange ==
    [][\A id \in DOMAIN buildingStore' :
          (/\ worldGrid.exists
           /\ Written(id)
           /\ ~(Footprint(buildingStore'[id]) \subseteq GridCells))
          => worldGrid' = worldGrid
      ]_vars

\* ------------------------------------------- the world generation route

\* The smallest and the largest width and height the route accepts.
MinDimension == 10

MaxDimension == 100

\* The route's test with the upper limit left out.
ValidDimensionsMut(width, height) ==
    ~(width = 0 \/ height = 0 \/ width < MinDimension \/ height < MinDimension)

\* The negation of the route's test `!width || !height || width < 10 ||
\* height < 10 || width > 100 || height > 100`; a missing width is 0.
ValidDimensions(width, height) ==
    ~(\/ width = 0 \/ height = 0
      \/ width < MinDimension \/ height < MinDimension
      \/ width > MaxDimension \/ height > MaxDimension)

\* The widths and heights requested: missing, negative, and both sides of
\* either limit.
DimensionsAsked ==
    {0, -1, MinDimension - 1, MinDimension, MaxDimension, MaxDimension + 1}

\* POST /api/world/generate with the body {width, height, seed}: 400 for
\* invalid dimensions; otherwise storage.generateWorld(width, height,
\* seed || random), which stores the fresh grid and the seed.  Seed 0 is a
\* missing (or zero) seed, for which `drawn` is taken.
GenerateWorldRoute ==
    /\ \E width \in DimensionsAsked, height \in DimensionsAsked, seed \in Seeds, drawn \in Seeds :
         IF ValidDimensions(width, height)
         THEN /\ worldGrid' = EmptyGrid(width, height)
              /\ worldSeed' = IF seed # 0 THEN seed ELSE drawn
              /\ response' = [route |-> "/api/world/generate", a |-> width, b |-> height,
                              status |-> 200]
         ELSE /\ response' = [route |-> "/api/world/generate", a |-> width, b |-> height,
                              status |-> 400]
              /\ UNCHANGED <<worldGrid, worldSeed>>
    /\ UNCHANGED <<buildingStore, buildingCounter, resourceStore, resourceCounter, taskVars,
                   pathVars, clientVars>>

\* The store after construction, answering world generation requests.
SpecWorldGen == InitStore /\ [][GenerateWorldRoute]_vars

\* C19: a world generation request whose width or height lies outside
\* [10, 100] is rejected and leaves the stored world and the stored world seed
\* unchanged; a request with both inside the range is accepted and the
\* resulting world grid has exactly width x height cells.
C19_DimensionsChecked ==
    [][(response' # response /\ response'.route = "/api/world/generate")
        => LET width == response'.a
               height == response'.b
           IN IF width < 10 \/ width > 100 \/ height < 10 \/ height > 100
              THEN /\ response'.status = 400
                   /\ worldGrid' = worldGrid
                   /\ worldSeed' = worldSeed
              ELSE /\ response'.status = 200
                   /\ worldGrid'.exists
                   /\ worldGrid'.width = width /\ worldGrid'.height = height
                   /\ Cardinality(DOMAIN worldGrid'.grid) = width * height
      ]_vars

\* A request with a width above the range has been rejected while the store
\* holds the 100 x 10 world and the seed of an earlier, accepted request.
C19_Witness ==
    /\ response.route = "/api/world/generate"
    /\ response.status = 400
    /\ response.a = 101
    /\ worldGrid.exists
    /\ worldGrid.width = 100 /\ worldGrid.height = 10
    /\ Cardinality(DOMAIN worldGrid.grid) = 1000
    /\ worldSeed = 1

\* ------------------------------------------------ the failing oracle call

\* A text is the sequence of its words in lower case without punctuation: the
\* caller lower-cases a response before it searches it, and none of the lines
\* below holds a task kind inside a longer word.

\* What getDwarfThoughts returns when sendAIMessage rejects.
ClientDefault == <<"i'm", "not", "sure", "what", "to", "think", "right", "now">>

\* The lines generateMockAIResponse picks by the words of the user message.
MockHungry ==
    <<"by", "me", "beard", "i", "need", "some", "grub", "the", "stomach's", "growlin'",
      "like", "an", "angry", "badger">>

MockTired ==
    <<"me", "eyelids", "are", "heavy", "as", "stone", "need", "to", "find", "a", "bed", "soon">>

MockBuild ==
    <<"aye", "i'll", "put", "these", "hands", "to", "work", "stone", "and", "timber", "wait",
      "for", "no", "dwarf">>

MockMine == <<"the", "rocks", "be", "callin'", "me", "name", "time", "to", "swing", "the", "pickaxe">>

MockCompleted == <<"job's", "done", "and", "a", "fine", "piece", "o'", "work", "it", "is">>

MockMeet == <<"well", "met", "fellow", "stonefriend", "how", "goes", "the", "digging">>

\* The `responses` generateMockAIResponse draws from when no word matches.
MockResponses ==
    << <<"rock", "and", "stone", "to", "the", "bone">>,
       <<"aye", "what", "do", "ye", "need">>,
       <<"by", "the", "beard", "another", "fine", "day", "for", "mining">>,
       <<"these", "tunnels", "won't", "dig", "themselves">>,
       <<"i", "smell", "gold", "or", "maybe", "it's", "just", "me", "lunch">>,
       <<"the", "mountain", "sings", "to", "those", "who", "listen">>,
       <<"where", "there's", "stone", "there's", "a", "way">>,
       <<"i", "could", "use", "an", "ale", "'bout", "now">>,
       <<"don't", "suppose", "ye", "have", "any", "mead">>,
       <<"keep", "yer", "feet", "on", "the", "ground">> >>

\* createDecisionMessage(dwarf, worldState), as the words of it that
\* generateMockAIResponse looks for: "hungry" and "tired" come from the
\* worker's needs, "completed" from a complete building in the world state,
\* and "build" is in the task list that ends every decision message.
createDecisionMessage(dwarf, bs) ==
    {"build"}
        \cup (IF dwarf.hunger > 50 THEN {"hungry"} ELSE {})
        \cup (IF dwarf.energy >= 25 /\ dwarf.energy < 50 THEN {"tired"} ELSE {})
        \cup (IF \E i \in DOMAIN bs : bs[i].complete THEN {"completed"} ELSE {})

\* The same function without the "build" check.
generateMockAIResponseMut(userMessage, pick) ==
    IF "hungry" \in userMessage \/ "hunger" \in userMessage THEN MockHungry
    ELSE IF "tired" \in userMessage \/ "energy" \in userMessage THEN MockTired
    ELSE MockResponses[pick]

\* generateMockAIResponse(messages) for the words of the first user message;
\* `pick` is the index Math.random() draws.
generateMockAIResponse(userMessage, pick) ==
    IF "hungry" \in userMessage \/ "hunger" \in userMessage THEN MockHungry
    ELSE IF "tired" \in userMessage \/ "energy" \in userMessage THEN MockTired
    ELSE IF "build" \in userMessage THEN MockBuild
    ELSE IF "mine" \in userMessage THEN MockMine
    ELSE IF "completed" \in userMessage THEN MockCompleted
    ELSE IF "meet" \in userMessage \/ "talk" \in userMessage THEN MockMeet
    ELSE MockResponses[pick]

\* The same search without the Idle default: a text that names no task kind
\* is taken as the task itself.
TaskNamedInMut(text) ==
    LET named == {i \in DOMAIN text : text[i] \in TaskKinds}
    IN  IF text = <<>> THEN "idle"
        ELSE IF named = {} THEN text[1]
        ELSE text[CHOOSE i \in named : \A j \in named : i <= j]

\* The task getAIDecision reads from a response: the first task kind in the
\* text, Idle when there is none.
TaskNamedIn(text) ==
    LET named == {i \in DOMAIN text : text[i] \in TaskKinds}
    IN  IF named = {} THEN "idle"
        ELSE text[CHOOSE i \in named : \A j \in named : i <= j]

\* How a decision request fails: "rejected", sendAIMessage rejects and
\* getDwarfThoughts catches it; "upstream", the route's call of the language
\* service throws and the route answers with a mock response.
FailureKinds == {"rejected", "upstream"}

\* One waiting getAIDecision call of worker d gets the outcome of a failed
\* request and runs to its end.  `response` keeps what getDwarfThoughts
\* returned: the text, and status 200 when it came from the route.  The needs
\* a decision message is written from do not change while the call waits.
DecisionFailure(d, kind, pick, k) ==
    /\ InFlight(d) > 0
    /\ LET aiResponse ==
              IF kind = "rejected" THEN ClientDefault
              ELSE generateMockAIResponse(createDecisionMessage(dwarves[d], buildings), pick)
           chosenTask == TaskNamedIn(aiResponse)
       IN  /\ dwarves' = assignTask(dwarves, d, chosenTask,
                             DecisionTarget(dwarves, resources, buildings, d, chosenTask, k))
           /\ response' = [route |-> "getDwarfThoughts", a |-> d, b |-> 0,
                           status |-> IF kind = "rejected" THEN 0 ELSE 200,
                           text |-> aiResponse]
    /\ decisions' = [decisions EXCEPT ![d] = [fresh |-> 0, stale |-> InFlight(d) - 1]]
    /\ lastUpdateTime' = [lastUpdateTime EXCEPT ![d] = TRUE]
    /\ UNCHANGED <<game, worldGrid, pathVars, buildingStore, buildingCounter, resourceStore,
                   resourceCounter, taskVars, worldSeed, resources, buildings, world,
                   moveTick, needCheck, lastNeedUpdateTime>>

\* Needs below the critical thresholds, so that every worker asks the oracle:
\* not hungry or hungry, tired or rested.
FailureProfiles ==
    [state : {"idle"}, hunger : {50, 60}, energy : {40, 50}, happiness : {50}]

RestedProfile == [state |-> "idle", hunger |-> 50, energy |-> 50, happiness |-> 50]

\* Worker 1 with any of the profiles and the others rested, a stone resource
\* and a finished bed.
InitOracleFailure ==
    /\ worldGrid = NoGrid
    /\ StoreIdle
    /\ pathReq = NoReq
    /\ pathRes = <<>>
    /\ dwarves \in {[d \in DwarfIds |->
                        ProfiledDwarf(LineUp(d, 1), IF d = 1 THEN profile ELSE RestedProfile)] :
                       profile \in FailureProfiles}
    /\ resources = <<NewResource(1, "stone", <<1, 2>>, StoneQuantity, FALSE)>>
    /\ buildings = <<NewBuilding(1, "bed", <<3, 2>>, TRUE, 100)>>
    /\ world = NoGrid
    /\ moveTick = NoTick
    /\ needCheck = <<>>
    /\ decisions = [d \in DwarfIds |-> NoDecisions]
    /\ lastUpdateTime = [d \in DwarfIds |-> FALSE]
    /\ lastNeedUpdateTime = 0
    /\ game = GamePlaying

NextOracleFailure ==
    \/ NextOracle
    \/ \E d \in DwarfIds, kind \in FailureKinds, pick \in DOMAIN MockResponses,
          k \in Picks(resources) : DecisionFailure(d, kind, pick, k)

SpecOracleFailure == InitOracleFailure /\ [][NextOracleFailure]_vars

\* The step hands worker d the outcome of a failed decision request.
FailureAnswered(d) ==
    /\ response' # response
    /\ response'.route = "getDwarfThoughts"
    /\ response'.a = d

\* The getAIDecision call of worker d that got its response ran to its end:
\* the worker got the task with no target, the call no longer waits, the
\* decision time is recorded, and the other workers and their calls are as
\* they were.
DecisionStepCompletes(d, task) ==
    /\ dwarves'[d].currentTask = task
    /\ dwarves'[d].state = task
    /\ dwarves'[d].target = NoPoint
    /\ decisions'[d].fresh + decisions'[d].stale = InFlight(d) - 1
    /\ lastUpdateTime'[d]
    /\ \A o \in DwarfIds \ {d} :
          /\ dwarves'[o] = dwarves[o]
          /\ decisions'[o] = decisions[o]
          /\ lastUpdateTime'[o] = lastUpdateTime[o]

\* C20 as stated: when the decision-oracle call fails, the caller receives
\* the same fixed default every time, the task derived from it is Idle, and
\* the worker's decision step completes, leaving the other workers to later
\* ticks.
C20_SameDefaultEveryTime ==
    [][\A d \in DwarfIds :
          FailureAnswered(d)
          => /\ response'.text = ClientDefault
             /\ DecisionStepCompletes(d, "idle")
      ]_vars

\* C20 as amended: when the decision-oracle call fails, the caller receives a
\* canned line that names no task: the fixed line of getDwarfThoughts when the
\* request is rejected, the route's mock line picked by the words of the
\* decision message when the route's own call fails (the hungry line for a
\* hungry worker, else the tired line for a tired one, else the build line).
\* The task derived from it is Idle and the worker's decision step completes,
\* leaving the other workers to later ticks.
C20_CannedLineIdle ==
    [][\A d \in DwarfIds :
          FailureAnswered(d)
          => /\ response'.text =
                   (IF response'.status # 200 THEN ClientDefault
                    ELSE IF dwarves[d].hunger > 50 THEN MockHungry
                    ELSE IF dwarves[d].energy >= 25 /\ dwarves[d].energy < 50 THEN MockTired
                    ELSE MockBuild)
             /\ \A i \in DOMAIN response'.text : response'.text[i] \notin TaskKinds
             /\ DecisionStepCompletes(d, "idle")
      ]_vars

\* Worker 1, tired and not hungry, got the route's tired line for a failed
\* request and was set idle; its decision interval has elapsed since and the
\* timer has sent a new request for it, while worker 2 has a request waiting
\* too.
C20_Witness ==
    /\ response.route = "getDwarfThoughts"
    /\ response.a = 1
    /\ response.status = 200
    /\ response.text = MockTired
    /\ dwarves[1].state = "idle"
    /\ ~lastUpdateTime[1]
    /\ decisions[1].fresh > 0
    /\ InFlight(2) > 0

\* ------------------------------------------------ claims on the movement

\* The cells workers and resources lie on in the movement specification: the
\* cells of a grid one wider and one higher than GridW x GridH that the
\* pathfinding route takes as start or end.
MoveGrid == EmptyGrid(GridW + 1, GridH + 1)

MoveCells == {p \in Cells(GridW + 1, GridH + 1) : p[1] >= 1 /\ p[2] >= 1}

\* A worker at p that was given the hauling task with the resource at r as
\* target and has not asked for a path yet.
HaulingDwarf(p, r) ==
    Merge(NewDwarf(p, 50, 50, 50), [state |-> "hauling", currentTask |-> "hauling", target |-> r])

\* One stone resource anywhere; worker 1 anywhere, idle or sent to the
\* resource; the other workers idle on the first cell.  The server has either
\* no world or an open one.
InitMove ==
    /\ worldGrid \in {NoGrid, MoveGrid}
    /\ StoreIdle
    /\ pathReq = NoReq
    /\ pathRes = <<>>
    /\ \E r \in MoveCells :
          /\ resources = <<NewResource(1, "stone", r, StoneQuantity, FALSE)>>
          /\ dwarves \in {[d \in DwarfIds |-> IF d = 1 THEN first ELSE NewDwarf(<<1, 1>>, 50, 50, 50)] :
                             first \in {NewDwarf(p, 50, 50, 50) : p \in MoveCells}
                                       \cup {HaulingDwarf(p, r) : p \in MoveCells}}
    /\ buildings = <<>>
    /\ world = addResourceToWorld(MoveGrid, resources[1])
    /\ moveTick = NoTick
    /\ needCheck = <<>>
    /\ decisions = <<>>
    /\ lastUpdateTime = <<>>
    /\ lastNeedUpdateTime = 0
    /\ game = GamePlaying

NextMove ==
    \/ MovementTick
    \/ PathResponse
    \/ TargetReachedEffect

SpecMove == InitMove /\ [][NextMove]_vars

\* C21: every movement step moves a worker to a cell orthogonally adjacent to
\* the cell it occupied before the step (Manhattan distance exactly 1) and
\* consumes exactly the first cell of its path: a step that changes a worker's
\* path or position leaves it at distance 1 from where it stood, and a step
\* from a path in hand puts it on the path's first cell and keeps the rest.
C21_StepAdjacent ==
    [][\A d \in DOMAIN dwarves :
          LET before == dwarves[d]
              after == dwarves'[d]
              moved == <<after.x, after.y>> # <<before.x, before.y>> \/ after.path # before.path
          IN  moved
              => /\ getManhattanDistance(<<before.x, before.y>>, <<after.x, after.y>>) = 1
                 /\ before.path # <<>>
                    => (<<after.x, after.y>> = Head(before.path) /\ after.path = Tail(before.path))
      ]_vars

\* ----------------------------------------- claims on the target resolution

\* The task kinds whose target is a resource, a building or another worker.
TargetedKinds == {"mining", "woodcutting", "building", "socializing"}

\* C22: when task selection finds no valid target for the chosen task kind (no
\* matching resource, no incomplete building, no nearby worker), no task is
\* assigned and the worker stays idle: a step never gives a worker a task of
\* such a kind without a target.
C22_NoTargetNoTask ==
    [][\A d \in DOMAIN dwarves :
          (/\ dwarves'[d].currentTask # dwarves[d].currentTask
           /\ dwarves'[d].currentTask \in TargetedKinds)
          => dwarves'[d].target # NoPoint
      ]_vars

\* ------------------------------------------- claims on the generated world

\* The step is a generateWorld call: the store gets its first world or a new
\* seed.
WorldGenerated == worldGrid'.exists /\ (~worldGrid.exists \/ worldSeed' # worldSeed)

\* C23: in the world returned by generateWorld, every in-bounds cell covered
\* by the footprint of a building already in the store has type building and
\* references that building, with walkability set by the building's blocking
\* rule, and every cell holding a stored resource with quantity > 0 has type
\* resource.
C23_GeneratedWorldHoldsOccupants ==
    [][WorldGenerated =>
        /\ \A id \in DOMAIN buildingStore' :
              \A c \in Footprint(buildingStore'[id]) \cap DOMAIN worldGrid'.grid :
                  /\ worldGrid'.grid[c].type = "building"
                  /\ worldGrid'.grid[c].buildingId = id
                  /\ worldGrid'.grid[c].walkable = (buildingStore'[id].type # "wall")
        /\ \A id \in DOMAIN resourceStore' :
              LET c == <<resourceStore'[id].x, resourceStore'[id].y>>
              IN  (resourceStore'[id].quantity > 0 /\ c \in DOMAIN worldGrid'.grid)
                  => worldGrid'.grid[c].type = "resource"
      ]_vars

\* ------------------------------------------- claims on the response parsing

\* The words the oracle's answers are made of: a task kind with a capital
\* letter, a task kind in lower case and a word that is no task kind.
OracleWords == {"Mining", "idle", "rest"}

\* The longest answer, in words.
MaxWords == 2

OracleTexts == UNION {[1 .. n -> OracleWords] : n \in 0 .. MaxWords}

\* aiResponse.toLowerCase(), word by word.
toLowerCase(text) == [i \in DOMAIN text |-> IF text[i] = "Mining" THEN "mining" ELSE text[i]]

\* getDwarfThoughts resolves with the oracle's text for one waiting call of
\* worker d: the task read from the text is assigned with the target found and
\* the decision time is recorded.  `response` keeps the text.
DecisionText(d, text, k) ==
    /\ InFlight(d) > 0
    /\ LET chosenTask == TaskNamedIn(toLowerCase(text))
       IN  dwarves' = assignTask(dwarves, d, chosenTask,
                         DecisionTarget(dwarves, resources, buildings, d, chosenTask, k))
    /\ response' = [route |-> "getDwarfThoughts", a |-> d, b |-> 0, status |-> 200,
                    text |-> text]
    /\ decisions' = [decisions EXCEPT ![d] = [fresh |-> 0, stale |-> InFlight(d) - 1]]
    /\ lastUpdateTime' = [lastUpdateTime EXCEPT ![d] = TRUE]
    /\ UNCHANGED <<game, worldGrid, pathVars, buildingStore, buildingCounter, resourceStore,
                   resourceCounter, taskVars, worldSeed, resources, buildings, world,
                   moveTick, needCheck, lastNeedUpdateTime>>

NextOracleText ==
    \/ TimerTick
    \/ \E d \in DwarfIds :
        \/ \E text \in OracleTexts, k \in Picks(resources) : DecisionText(d, text, k)
        \/ IntervalElapses(d)

SpecOracleText == InitOracleFailure /\ [][NextOracleText]_vars

\* C24: the task kind applied to a worker after an oracle decision is always a
\* member of the fixed task-kind enum (idle, mining, woodcutting, building,
\* eating, sleeping, socializing, crafting, hauling), and when the oracle's
\* text contains none of these kinds, in any case of letters, the applied task
\* is Idle.
C24_AppliedTaskInEnum ==
    [][\A d \in DwarfIds :
          (response' # response /\ response'.route = "getDwarfThoughts" /\ response'.a = d)
          => /\ dwarves'[d].currentTask
                   \in {"idle", "mining", "woodcutting", "building", "eating", "sleeping",
                        "socializing", "crafting", "hauling"}
             /\ dwarves'[d].state = dwarves'[d].currentTask
             /\ (\A i \in DOMAIN response'.text : response'.text[i] \notin {"Mining", "idle"})
                => dwarves'[d].currentTask = "idle"
      ]_vars

\* Worker 1 got an answer that names no task kind and was given the idle
\* task; worker 2 got the mining task from an earlier answer.
C24_Witness ==
    /\ response.route = "getDwarfThoughts"
    /\ response.a = 1
    /\ response.text = <<"rest", "rest">>
    /\ dwarves[1].currentTask = "idle"
    /\ lastUpdateTime[1]
    /\ dwarves[2].currentTask = "mining"

\* ----------------------------------- the frame loop on the frame clock

\* Seconds between the decisions of a worker and between need updates.
AI_DECISION_INTERVAL == 2

NEED_UPDATE_INTERVAL == 5

\* In this specification the two time stamps of the frame loop are kept as
\* ages, in whole seconds: lastNeedUpdateTime is the clock minus
\* lastNeedUpdateTime.current and lastUpdateTime[d] the clock minus
\* lastDecisionTime.current[d].  Frames follow each other far faster than a
\* second, so whatever is due runs before the next second passes.
NeedsDue == lastNeedUpdateTime >= NEED_UPDATE_INTERVAL

DecisionDue(d) == lastUpdateTime[d] >= AI_DECISION_INTERVAL

\* A second passes in which no frame has anything to do.
SecondPasses ==
    /\ world.exists
    /\ ~NeedsDue
    /\ \A d \in DOMAIN dwarves : ~DecisionDue(d)
    /\ lastNeedUpdateTime' = lastNeedUpdateTime + 1
    /\ lastUpdateTime' = [d \in DOMAIN dwarves |-> lastUpdateTime[d] + 1]
    /\ UNCHANGED <<game, worldGrid, pathVars, storeVars, dwarves, resources, buildings, world,
                   moveTick, needCheck, decisions>>

\* The workers of the rendered list from worker i on that are due for a
\* decision: each is stamped and processAI runs for it.
RECURSIVE DueLoop(_, _, _, _)
DueLoop(i, snap, st, pick) ==
    IF i > Len(snap.dwarves) THEN st
    ELSE IF DecisionDue(i)
         THEN DueLoop(i + 1, snap, processAI(st, snap, i, pick[i][1], pick[i][2]), pick)
         ELSE DueLoop(i + 1, snap, st, pick)

\* The useFrame callback of a frame in which the need update or a decision is
\* due: updateAllNeeds first, with its checkCriticalNeeds calls, then the
\* decisions of the workers that are due, on the rendered values.
DueFrame ==
    /\ world.exists
    /\ NeedsDue \/ \E d \in DOMAIN dwarves : DecisionDue(d)
    /\ lastNeedUpdateTime' = IF NeedsDue THEN 0 ELSE lastNeedUpdateTime
    /\ lastUpdateTime' = [d \in DOMAIN dwarves |->
                             IF DecisionDue(d) THEN 0 ELSE lastUpdateTime[d]]
    /\ needCheck' = [d \in DOMAIN needCheck |->
                        IF NeedsDue /\ needCheck[d].stage \in {"idle", "done"}
                        THEN [stage |-> StageFrom(dwarves[d], 1), snap |-> dwarves[d],
                              calls |-> 0]
                        ELSE needCheck[d]]
    /\ \E draw \in [DOMAIN dwarves -> IF NeedsDue THEN UnitDraws \X UnitDraws ELSE {<<0, 0>>}],
          pick \in [DOMAIN dwarves -> RandomTasks \X PickIndex] :
         LET updated == IF NeedsDue
                        THEN [ClientState EXCEPT
                                 !.dwarves = updateAllNeeds(1, dwarves, dwarves, draw)]
                        ELSE ClientState
             st == DueLoop(1, ClientState, updated, pick)
         IN  /\ dwarves' = st.dwarves
             /\ resources' = st.resources
             /\ buildings' = st.buildings
             /\ world' = st.world
    /\ UNCHANGED <<game, worldGrid, pathVars, storeVars, moveTick, decisions>>

\* Some worker eats or sleeps.
Resting == \E d \in DOMAIN dwarves : dwarves[d].state \in {"eating", "sleeping"}

\* What a worker starts with when it rests: eating with hunger at the end of
\* the meal or far above it, sleeping with energy at the end of the sleep or
\* below it, not hungry or about to be very hungry.
RestProfiles ==
    {[state |-> "eating", hunger |-> h, energy |-> 50, happiness |-> 50] : h \in {10, 100}}
      \cup {[state |-> "sleeping", hunger |-> 15, energy |-> e, happiness |-> 50] :
               e \in {60, 90}}
      \cup {[state |-> "sleeping", hunger |-> 78, energy |-> 60, happiness |-> 50]}

\* A world with one worker that eats or sleeps, no resources and no
\* buildings; the clocks start together.
InitRest ==
    /\ worldGrid = NoGrid
    /\ StoreIdle
    /\ pathReq = NoReq
    /\ pathRes = <<>>
    /\ dwarves \in {<<ProfiledDwarf(<<1, 1>>, rest)>> : rest \in RestProfiles}
    /\ resources = <<>>
    /\ buildings = <<>>
    /\ world = EmptyGrid(GridW, GridH)
    /\ moveTick = NoTick
    /\ needCheck = [d \in DOMAIN dwarves |-> NoCheck(dwarves[d])]
    /\ decisions = <<>>
    /\ lastUpdateTime = [d \in DOMAIN dwarves |-> 0]
    /\ lastNeedUpdateTime = 0
    /\ game = GamePlaying

\* The frame loop is followed for as long as some worker eats or sleeps.
NextRest ==
    \/ Resting /\ SecondPasses
    \/ Resting /\ DueFrame
    \/ Resting /\ \E d \in DOMAIN dwarves, roll \in BOOLEAN : CheckCriticalNeedsResume(d, roll)

SpecRest == InitRest /\ [][NextRest]_vars

\* Fair ticking: the clock goes on and every frame that has something due
\* runs.  The oracle behind checkCriticalNeeds may answer or stay silent.
FairSpecRest ==
    /\ SpecRest
    /\ WF_vars(Resting /\ SecondPasses)
    /\ WF_vars(Resting /\ DueFrame)

\* --------------------------------------------- claims on eating and sleeping

\* C25: a worker in state Eating returns to Idle once its hunger is at or
\* below 10, and a worker in state Sleeping returns to Idle once its energy is
\* at or above 90: the decision a frame makes for such a worker sets it idle.
\* Under fair ticking every Eating or Sleeping worker eventually leaves that
\* state.
C25_RestEnds ==
    /\ [][\A d \in DOMAIN dwarves :
             (/\ DecisionDue(d)
              /\ lastUpdateTime'[d] = 0
              /\ \/ dwarves[d].state = "eating" /\ dwarves[d].hunger <= 10
                 \/ dwarves[d].state = "sleeping" /\ dwarves[d].energy >= 90)
             => dwarves'[d].state = "idle"
         ]_vars
    /\ (dwarves[1].state = "eating") ~> (dwarves[1].state # "eating")
    /\ (dwarves[1].state = "sleeping") ~> (dwarves[1].state # "sleeping")

\* A worker that slept through need updates until its energy was at least 90
\* has been set idle by the decision of a frame.
C25_Witness ==
    /\ dwarves[1].state = "idle"
    /\ dwarves[1].currentTask = "none"
    /\ dwarves[1].energy >= 90
    /\ dwarves[1].hunger > 15
    /\ lastUpdateTime[1] = 0

\* --------------------------------------------------- claims on socializing

\* The other workers at Manhattan distance at most 5 from worker d.
WithinFive(d) ==
    {o \in DOMAIN dwarves \ {d} :
        getManhattanDistance(<<dwarves[d].x, dwarves[d].y>>, <<dwarves[o].x, dwarves[o].y>>) <= 5}

\* C26: whenever Socializing is assigned with a target, the target is the
\* position of a different worker whose Manhattan distance from the assignee
\* is at most 5, and every other worker at Manhattan distance at most 5
\* (exactly 5 included) is eligible: with such a worker there, the assignment
\* gets a target.
C26_SocialTargetInRange ==
    [][\A d \in DOMAIN dwarves :
          (dwarves'[d].state = "socializing" /\ TaskView(dwarves'[d]) # TaskView(dwarves[d]))
          => /\ dwarves'[d].target # NoPoint
                => \E o \in WithinFive(d) : dwarves'[d].target = <<dwarves[o].x, dwarves[o].y>>
             /\ WithinFive(d) # {} => dwarves'[d].target # NoPoint
      ]_vars

\* ------------------------------------------------- the pathfinding route

\* JavaScript's !n on a number: zero is falsy.
Falsy(n) == n = 0

\* POST /api/pathfinding: a request with a falsy coordinate is answered 400
\* without calling findPath; any other is answered with findPath's result.
PathfindingRoute ==
    /\ response = NoResponse
    /\ \E s \in PathPoints, e \in PathPoints :
         IF Falsy(s[1]) \/ Falsy(s[2]) \/ Falsy(e[1]) \/ Falsy(e[2])
         THEN /\ response' = [route |-> "pathfinding", a |-> 0, b |-> 0, status |-> 400]
              /\ pathReq' = [start |-> s, end |-> e, called |-> FALSE]
              /\ pathRes' = <<>>
         ELSE /\ response' = [route |-> "pathfinding", a |-> 0, b |-> 0, status |-> 200]
              /\ pathReq' = [start |-> s, end |-> e, called |-> TRUE]
              /\ pathRes' = findPath(worldGrid, s, e)
    /\ UNCHANGED <<worldGrid, buildingStore, buildingCounter, resourceStore, resourceCounter,
                   taskVars, worldSeed, clientVars>>

NextPathRoute == PathfindingRoute

SpecPathRoute == InitPath /\ [][NextPathRoute]_vars

\* C27: the pathfinding endpoint accepts every request whose start and end
\* are points inside the grid, points with x = 0 or y = 0 included, and
\* answers with the result of findPath, not with an invalid-input error.
C27_InGridAccepted ==
    (/\ response.route = "pathfinding"
     /\ worldGrid.exists
     /\ InBounds(worldGrid, pathReq.start)
     /\ InBounds(worldGrid, pathReq.end))
        => /\ response.status = 200
           /\ pathReq.called
           /\ pathRes = findPath(worldGrid, pathReq.start, pathReq.end)

\* ------------------------------------------- records and the keys they have

\* MemStorage keeps no worker away once created, so dwarfCounter, which the
\* constructor leaves one past the starter workers, is one past the keys.
dwarfCounter == Cardinality(DOMAIN dwarfStore) + 1

\* MemStorage.createDwarf: the next id, idle, no task.
CreateDwarf ==
    /\ dwarfCounter <= NumDwarves + 1
    /\ LET id == dwarfCounter
           newDwarf == ServerDwarf(id)
       IN dwarfStore' = (id :> newDwarf) @@ dwarfStore
    /\ UNCHANGED <<worldGrid, buildingStore, buildingCounter, resourceStore, resourceCounter,
                   taskStore, taskCounter, worldSeed, response, pathVars, clientVars>>

\* The partial updates sent to updateDwarf: a Partial<Dwarf> may carry any
\* field of a Dwarf, the id among them.
DwarfUpdates ==
    {[id |-> k] : k \in DwarfIdsAsked} \cup {[state |-> "sleeping"]}

\* MemStorage.updateDwarf: undefined for a missing worker, otherwise the
\* merged record is stored under the id asked for.
UpdateDwarf ==
    /\ \E id \in DOMAIN dwarfStore, updates \in DwarfUpdates :
         LET updatedDwarf == Merge(dwarfStore[id], updates)
         IN dwarfStore' = [dwarfStore EXCEPT ![id] = updatedDwarf]
    /\ UNCHANGED <<worldGrid, buildingStore, buildingCounter, resourceStore, resourceCounter,
                   taskStore, taskCounter, worldSeed, response, pathVars, clientVars>>

\* The partial updates sent to updateTask: a new kind or a new id.
TaskUpdates ==
    {[id |-> k] : k \in TaskIdsAsked} \cup {[type |-> t] : t \in ServerTaskTypes}

\* MemStorage.updateTask: the merged record is stored under the id asked for.
UpdateTask ==
    /\ \E id \in DOMAIN taskStore, updates \in TaskUpdates :
         LET updatedTask == Merge(taskStore[id], updates)
         IN taskStore' = [taskStore EXCEPT ![id] = updatedTask]
    /\ UNCHANGED <<worldGrid, buildingStore, buildingCounter, resourceStore, resourceCounter,
                   dwarfStore, taskCounter, worldSeed, response, pathVars, clientVars>>

NextRecords ==
    \/ CreateDwarf
    \/ UpdateDwarf
    \/ CreateTask
    \/ UpdateTask

SpecRecords == InitTasks /\ [][NextRecords]_vars

\* Every record of the store s carries the key it is stored under.
IdsAreKeys(s) == \A k \in DOMAIN s : s[k].id = k

\* No two records of the store s carry the same id.
IdsDistinct(s) == \A j, k \in DOMAIN s : j # k => s[j].id # s[k].id

\* The keys of s2 that s1 lacks lie above every key of s1.
KeysGrow(s1, s2) ==
    /\ DOMAIN s1 \subseteq DOMAIN s2
    /\ \A n \in DOMAIN s2 \ DOMAIN s1 : \A k \in DOMAIN s1 : n > k

\* The handing out of ids: keys only grow and the counter never goes back.
KeysOnlyGrow ==
    /\ KeysGrow(dwarfStore, dwarfStore')
    /\ KeysGrow(taskStore, taskStore')
    /\ taskCounter' >= taskCounter

\* C28: after any sequence of create and update operations every stored
\* record's id field equals the key it is stored under, ids within one kind
\* are pairwise distinct, and ids are handed out in strictly increasing order
\* and never reused.
C28_IdsAreKeys ==
    /\ [](/\ IdsAreKeys(dwarfStore) /\ IdsDistinct(dwarfStore)
          /\ IdsAreKeys(taskStore) /\ IdsDistinct(taskStore)
          /\ IdsAreKeys(buildingStore) /\ IdsDistinct(buildingStore)
          /\ IdsAreKeys(resourceStore) /\ IdsDistinct(resourceStore))
    /\ [][KeysOnlyGrow]_vars

\* C29: after any sequence of assignTask calls, for every task whose
\* assignedTo is worker w, worker w's currentTask and state equal that
\* task's kind: a worker is never left recorded as the assignee of a task
\* whose kind differs from the one mirrored on the worker.
C29_AssigneeMirrorsTask ==
    \A t \in DOMAIN taskStore :
        taskStore[t].assignedTo \in DOMAIN dwarfStore
            => /\ dwarfStore[taskStore[t].assignedTo].currentTask = taskStore[t].type
               /\ dwarfStore[taskStore[t].assignedTo].state = taskStore[t].type

\* -------------------------------------------- the game store's life cycle

MaxDay == 3

MinutesPerDay == 1440

\* The speeds of the time control: 0 = paused, 1 = normal, 2 = fast, 3 = very fast.
Speeds == 0 .. 3

\* The minutes one call of advanceTime adds: half a day.
MinutesAdvanced == {720}

\* What the actions of the game store leave alone.
GameFrame ==
    UNCHANGED <<worldGrid, pathVars, storeVars, dwarves, resources, buildings, world,
                moveTick, needCheck, decisions, lastUpdateTime, lastNeedUpdateTime>>

\* useGame.start: playing, whatever the phase was.
start ==
    /\ game' = [game EXCEPT !.phase = "playing"]
    /\ GameFrame

\* useGame.pause: from playing to paused with settings.gamePaused set;
\* nothing in any other phase.
pause ==
    /\ game' = IF game.phase = "playing"
               THEN [game EXCEPT !.phase = "paused", !.gamePaused = TRUE]
               ELSE game
    /\ GameFrame

\* useGame.resume: from paused to playing with settings.gamePaused cleared;
\* nothing in any other phase.
resume ==
    /\ game' = IF game.phase = "paused"
               THEN [game EXCEPT !.phase = "playing", !.gamePaused = FALSE]
               ELSE game
    /\ GameFrame

\* useGame.restart: ready, day 1 at 6:00 AM, clear, normal speed.  The
\* settings are not among the fields it sets.
restart ==
    /\ game' = [game EXCEPT !.phase = "ready", !.day = 1, !.time = StartTime,
                            !.weather = "clear", !.speed = 1]
    /\ GameFrame

\* useGame.end: ended, whatever the phase was.
end ==
    /\ game' = [game EXCEPT !.phase = "ended"]
    /\ GameFrame

\* TimeControl.handlePlayPause: pause() when playing, resume() otherwise.
handlePlayPause ==
    IF game.phase = "playing" THEN pause ELSE resume

\* useGame.setSpeed.
setSpeed ==
    /\ \E speed \in Speeds : game' = [game EXCEPT !.speed = speed]
    /\ GameFrame

\* useGame.advanceTime: past midnight the time wraps and the day moves on.
advanceTime ==
    /\ game.day < MaxDay
    /\ \E minutes \in MinutesAdvanced :
         LET newTime == game.time + minutes IN
            game' = IF newTime >= MinutesPerDay
                    THEN [game EXCEPT !.time = newTime % MinutesPerDay,
                                      !.day = game.day + (newTime \div MinutesPerDay)]
                    ELSE [game EXCEPT !.time = newTime]
    /\ GameFrame

NextGame ==
    \/ start
    \/ pause
    \/ resume
    \/ restart
    \/ end
    \/ handlePlayPause
    \/ setSpeed
    \/ advanceTime

\* The page as loaded: the store as created, nothing else running.
SpecGame == InitStore /\ [][NextGame]_vars

\* C30: in every state reachable through start, pause, resume, restart and
\* end, settings.gamePaused is true exactly when the phase is "paused";
\* pause changes the phase only from "playing" and resume only from "paused",
\* each being a no-op in every other phase.
C30_PausedFlagIsPhase ==
    /\ [](game.gamePaused <=> game.phase = "paused")
    /\ [][/\ (pause /\ game.phase # "playing") => game' = game
          /\ (resume /\ game.phase # "paused") => game' = game]_vars

\* The guards of pause and resume alone.
PauseResumeGuarded ==
    [][/\ (pause /\ game.phase # "playing") => game' = game
       /\ (resume /\ game.phase # "paused") => game' = game
       /\ (game'.phase # game.phase /\ game'.phase = "paused") => game.phase = "playing"]_vars

====
